---- MODULE Spec2Model ----
(***************************************************************************)
(* mihonx-runner: the DEX instruction decoder (parser/class.rs), the       *)
(* register-machine interpreter (interpreter/interpreter.rs) and the host  *)
(* bridge (lib.rs), as a state machine.                                    *)
(*                                                                         *)
(* One step of the machine is one iteration of the innermost active        *)
(* Interpreter::run_with_class loop, or one stage of a host-bridge call.   *)
(* A Rust panic ends the process: status = "panicked" is absorbing.        *)
(* Rust indices are 0-based; At(s, i) reads element i of a Vec.            *)
(***************************************************************************)
EXTENDS Integers, Sequences, FiniteSets, TLC

\* ---------------------------------------------------------------- bounds
\* longest body (in instructions) drawn for the main class's getName
MaxLen == 2
\* number of host-bridge calls made after construction
MaxCalls == 2
\* deepest frame stack explored (the code has no limit of its own)
MaxDepth == 4

\* ---------------------------------------------------------------- Vec helpers
At(s, i) == s[i + 1]

InRange(s, i) == i >= 0 /\ i < Len(s)

SetAt(s, i, x) == [s EXCEPT ![i + 1] = x]

Last(s) == s[Len(s)]

Front(s) == SubSeq(s, 1, Len(s) - 1)

\* ---------------------------------------------------------------- DexValue
\* types.rs DexValue, as a uniform record: tag, integer payload, string payload
DexValue(t, n, s) == [t |-> t, n |-> n, s |-> s]

DexNull == DexValue("Null", 0, "")

DexVoid == DexValue("Void", 0, "")

DexInt(n) == DexValue("Int", n, "")

DexBoolean(b) == DexValue("Boolean", IF b THEN 1 ELSE 0, "")

DexString(s) == DexValue("String", 0, s)

DexObject(id) == DexValue("Object", id, "")

\* Option::None of an Option<DexValue>
None == DexValue("None", 0, "")

\* DexValue::to_boolean: Some(Boolean(v != 0)) for Int, None otherwise
to_boolean(v) == IF v.t = "Int" THEN DexBoolean(v.n # 0) ELSE None

\* ---------------------------------------------------------------- Instruction
\* types.rs Instruction, as a uniform record. a, b: register / literal
\* operands in the order of the variant's fields; c: constant-pool index;
\* args: the argument registers of an invoke.
Instr(op, a, b, c, args) == [op |-> op, a |-> a, b |-> b, c |-> c, args |-> args]

\* utils.rs get_lower_bits(value, 4)
get_lower_bits4(value) == value % 16

\* utils.rs parse_u16: little-endian, indexes data[offset] and data[offset+1]
parse_u16(data, offset) == At(data, offset) + 256 * At(data, offset + 1)

\* whether parse_u16 stays inside the buffer (otherwise the index panics)
parse_u16_ok(data, offset) == offset + 1 < Len(data)

\* i8::from_le_bytes([b]) : reinterpret one byte as a signed 8-bit integer
i8_from_byte(b) == IF b >= 128 THEN b - 256 ELSE b

\* utils.rs parse_u32: byte i of the slice is data[offset + i] when
\* offset + i <= available, with available = (data.len() - 1) - offset, and
\* zero otherwise; the u32 is kept as the four little-endian bytes of the slice
parse_u32(data, offset) ==
  LET available == (Len(data) - 1) - offset
  IN [i \in 1..4 |-> IF offset + (i - 1) <= available
                     THEN At(data, offset + (i - 1)) ELSE 0]

\* utils.rs parse_i32: the same slice, read by i32::from_le_bytes
parse_i32(data, offset) ==
  LET available == (Len(data) - 1) - offset
      slice == [i \in 1..4 |-> IF offset + (i - 1) <= available
                               THEN At(data, offset + (i - 1)) ELSE 0]
  IN slice[1] + 256 * slice[2] + 65536 * slice[3] + 16777216 * i8_from_byte(slice[4])

\* parser/class.rs 0x6E..=0x72: the argument registers read from args_slice
RECURSIVE invoke_arg_registers(_, _, _, _)
invoke_arg_registers(args_slice, argument_count, b, acc) ==
  IF argument_count = 0 \/ b >= ((argument_count - 1) + 1) \div 2
  THEN acc
  ELSE LET first == At(args_slice, b) \div 16
           withFirst == Append(acc, first)
           withSecond == IF argument_count % 2 = 0
                         THEN Append(withFirst, get_lower_bits4(At(args_slice, b)))
                         ELSE withFirst
       IN invoke_arg_registers(args_slice, argument_count, b + 1, withSecond)

IGetIPutName(opcode) ==
  CASE opcode = 82 -> "IGet"
    [] opcode = 83 -> "IGetWide"
    [] opcode = 84 -> "IGetObject"
    [] opcode = 85 -> "IGetBoolean"
    [] opcode = 86 -> "IGetByte"
    [] opcode = 87 -> "IGetChar"
    [] opcode = 88 -> "IGetShort"
    [] opcode = 89 -> "IPut"
    [] opcode = 90 -> "IPutWide"
    [] opcode = 91 -> "IPutObject"
    [] opcode = 92 -> "IPutBoolean"
    [] opcode = 93 -> "IPutByte"
    [] opcode = 94 -> "IPutChar"
    [] opcode = 95 -> "IPutShort"

InvokeName(opcode) ==
  CASE opcode = 110 -> "InvokeVirtual"
    [] opcode = 111 -> "InvokeSuper"
    [] opcode = 112 -> "InvokeDirect"
    [] opcode = 113 -> "InvokeStatic"
    [] opcode = 114 -> "InvokeInterface"

\* the opcodes of parse_instructions that this development decodes
DecodedOpcodes ==
  {0, 3, 6, 7, 10, 12, 14, 15, 17, 18, 26, 31, 34, 38, 39, 40, 41, 42}
    \cup (62..67) \cup (82..95) \cup (110..115) \cup {121, 122} \cup (227..252)

\* parser/class.rs parse_instructions, from cursor i on. The result is
\* [ok, ins]: ok = FALSE when an index into insns leaves the buffer (the
\* Rust index panics and decoding is abandoned).
RECURSIVE parse_instructions_from(_, _, _)
parse_instructions_from(insns, i, instructions) ==
  LET done == [ok |-> TRUE, ins |-> instructions]
      fail == [ok |-> FALSE, ins |-> instructions]
      opcode == At(insns, i)
      next(j, ins) == parse_instructions_from(insns, j, Append(instructions, ins))
  IN
  IF i >= Len(insns) THEN done
  ELSE IF i + 1 >= Len(insns) THEN done
  ELSE CASE opcode = 0 ->
              \* nop: the cursor moves by one byte only
              next(i + 1, Instr("Nop", 0, 0, 0, <<>>))
         [] opcode = 3 ->
              \* move/16: both operands are read two bytes wide, the cursor
              \* moves by one byte after each
              IF ~parse_u16_ok(insns, i + 1) \/ ~parse_u16_ok(insns, i + 2) THEN fail
              ELSE next(i + 3, Instr("Move16", parse_u16(insns, i + 1),
                                     parse_u16(insns, i + 2), 0, <<>>))
         [] opcode = 6 ->
              \* move-wide/16: the operands follow the opcode byte directly
              IF ~parse_u16_ok(insns, i + 1) \/ ~parse_u16_ok(insns, i + 3) THEN fail
              ELSE next(i + 5, Instr("MoveWide16", parse_u16(insns, i + 1),
                                     parse_u16(insns, i + 3), 0, <<>>))
         [] opcode = 7 ->
              next(i + 2, Instr("MoveObject", get_lower_bits4(At(insns, i + 1)),
                                At(insns, i + 1) \div 16, 0, <<>>))
         [] opcode = 10 -> next(i + 2, Instr("MoveResult", At(insns, i + 1), 0, 0, <<>>))
         [] opcode = 12 -> next(i + 2, Instr("MoveResultObject", At(insns, i + 1), 0, 0, <<>>))
         [] opcode = 14 -> next(i + 2, Instr("ReturnVoid", 0, 0, 0, <<>>))
         [] opcode = 15 -> next(i + 2, Instr("Return", At(insns, i + 1), 0, 0, <<>>))
         [] opcode = 17 -> next(i + 2, Instr("ReturnObject", At(insns, i + 1), 0, 0, <<>>))
         [] opcode = 18 ->
              \* const/4: literal = i8::from_le_bytes([insns[i] >> 4])
              next(i + 2, Instr("Const4Bit", get_lower_bits4(At(insns, i + 1)),
                                i8_from_byte(At(insns, i + 1) \div 16), 0, <<>>))
         [] opcode = 26 ->
              IF ~parse_u16_ok(insns, i + 2) THEN fail
              ELSE next(i + 4, Instr("ConstString", At(insns, i + 1), 0,
                                     parse_u16(insns, i + 2), <<>>))
         [] opcode = 31 ->
              IF ~parse_u16_ok(insns, i + 2) THEN fail
              ELSE next(i + 4, Instr("CheckCast", At(insns, i + 1), 0,
                                     parse_u16(insns, i + 2), <<>>))
         [] opcode = 34 ->
              IF ~parse_u16_ok(insns, i + 2) THEN fail
              ELSE next(i + 4, Instr("NewInstance", At(insns, i + 1), 0,
                                     parse_u16(insns, i + 2), <<>>))
         [] opcode = 38 ->
              \* fill-array-data: the cursor moves by one byte past the offset
              next(i + 3, Instr("FilledArrayData", At(insns, i + 1),
                                parse_i32(insns, i + 2), 0, <<>>))
         [] opcode = 39 -> next(i + 2, Instr("Throw", At(insns, i + 1), 0, 0, <<>>))
         [] opcode = 40 -> next(i + 2, Instr("Goto", 0, i8_from_byte(At(insns, i + 1)), 0, <<>>))
         [] opcode = 41 ->
              \* goto/16: the offset is read at the byte after the opcode
              IF ~parse_u16_ok(insns, i + 1) THEN fail
              ELSE next(i + 3, Instr("Goto16", 0,
                                     LET u == parse_u16(insns, i + 1)
                                     IN IF u >= 32768 THEN u - 65536 ELSE u, 0, <<>>))
         [] opcode \in {42} \cup (62..67) \cup {115, 121, 122} \cup (227..252) ->
              \* 0x2A, the unused opcodes and the invoke-polymorphic/custom
              \* TODOs: i += 1 and nothing is pushed
              parse_instructions_from(insns, i + 1, instructions)
         [] opcode \in 82..95 ->
              IF ~parse_u16_ok(insns, i + 2) THEN fail
              ELSE next(i + 4, Instr(IGetIPutName(opcode),
                                     get_lower_bits4(At(insns, i + 1)),
                                     At(insns, i + 1) \div 16,
                                     parse_u16(insns, i + 2), <<>>))
         [] opcode \in 110..114 ->
              IF ~parse_u16_ok(insns, i + 2) \/ i + 6 > Len(insns) THEN fail
              ELSE LET argument_count == At(insns, i + 1) \div 16
                       args_slice == SubSeq(insns, i + 5, i + 6)
                   IN next(i + 6, Instr(InvokeName(opcode), argument_count, 0,
                                        parse_u16(insns, i + 2),
                                        invoke_arg_registers(args_slice, argument_count,
                                                             0, <<>>)))

parse_instructions(insns) == parse_instructions_from(insns, 0, <<>>)

\* parser/class.rs parse_code_item, reduced to what the interpreter keeps of
\* a method: the declared register count and the decoded instructions
DexMethod(registers, insns) ==
  [registers |-> registers, instructions |-> parse_instructions(insns).ins]

\* ---------------------------------------------------------------- constant pool
\* The installed DEX file's constant pool (types.rs DexContainer and
\* Parser.strings). Parser.strings[i] is the string decoded at
\* string_id_items[i], so a string id is resolved through this table.
strings ==
  << "<init>", "getName", "helper", "areEqual", "getUserAgent", "LMain;",
     "LSource;", "LFoo;", "Ljava/lang/Object;", "LGone;", "x",
     "Lkotlin/jvm/internal/Intrinsics;", "Lmihonx/ExtensionContext;",
     "nothere", "fail", "loop", "abs", "checkNotNullParameter" >>

\* type id -> string id
type_id_items == << 5, 6, 7, 8, 9, 11, 12 >>

\* method id -> (class_idx: a type id, name_idx: a string id)
method_id_items ==
  << [class_idx |-> 3, name_idx |-> 0],    \* 0  Ljava/lang/Object;-><init>
     [class_idx |-> 1, name_idx |-> 0],    \* 1  LSource;-><init>
     [class_idx |-> 2, name_idx |-> 0],    \* 2  LFoo;-><init>
     [class_idx |-> 0, name_idx |-> 2],    \* 3  LMain;->helper
     [class_idx |-> 5, name_idx |-> 3],    \* 4  Intrinsics->areEqual
     [class_idx |-> 6, name_idx |-> 4],    \* 5  ExtensionContext->getUserAgent
     [class_idx |-> 4, name_idx |-> 0],    \* 6  LGone;-><init>
     [class_idx |-> 2, name_idx |-> 13],   \* 7  LFoo;->nothere
     [class_idx |-> 0, name_idx |-> 14],   \* 8  LMain;->fail
     [class_idx |-> 2, name_idx |-> 15],   \* 9  LFoo;->loop
     [class_idx |-> 2, name_idx |-> 16],   \* 10 LFoo;->abs
     [class_idx |-> 5, name_idx |-> 17],   \* 11 Intrinsics->checkNotNullParameter
     [class_idx |-> 1, name_idx |-> 14] >> \* 12 LSource;->fail

\* str::contains on the strings of the pool
ContainsJavaLang(s) == s \in {"Ljava/lang/Object;"}

ContainsSource(s) == s \in {"LSource;"}

ContainsSemicolon(s) ==
  s \in {"LMain;", "LSource;", "LFoo;", "Ljava/lang/Object;", "LGone;",
         "Lkotlin/jvm/internal/Intrinsics;", "Lmihonx/ExtensionContext;"}

\* DexContainer::string_offset composed with the string decoder:
\* Some(string) when the string id is in the table, None otherwise
string_of_id(string_id) ==
  IF InRange(strings, string_id) THEN DexString(At(strings, string_id)) ELSE None

\* DexContainer::type_to_string_id
type_to_string_id(type_id) ==
  IF InRange(type_id_items, type_id) THEN At(type_id_items, type_id) ELSE -1

\* ---------------------------------------------------------------- instruction encodings
\* Encoded instructions (bytes) from which method bodies are assembled.
K_const4_v0_F == <<18, 240>>           \* 12 F0       const/4 v0, #F
K_const4_v5_1 == <<18, 21>>            \* 12 15       const/4 v5, #1
K_const_string_v2_x == <<26, 2, 10, 0>>     \* const-string v2, string@10
K_const_string_v0_bad == <<26, 0, 200, 0>>  \* const-string v0, string@200
K_move_object_v2_v0 == <<7, 2>>        \* move-object v2, v0
K_move_result_v2 == <<10, 2>>          \* move-result v2
K_move_result_object_v0 == <<12, 0>>   \* move-result-object v0
K_new_instance_v0_Foo == <<34, 0, 2, 0>>    \* new-instance v0, type@2
K_check_cast_v0 == <<31, 0, 2, 0>>     \* check-cast v0, type@2
K_iput_object_v1_v1_f7 == <<91, 17, 7, 0>>  \* iput-object v1, v1, field@7
K_iget_object_v2_v1_f7 == <<84, 18, 7, 0>>  \* iget-object v2, v1, field@7
K_invoke_static_areEqual == <<113, 32, 4, 0, 32, 0>>    \* invoke-static {v0, v2}, method@4
K_invoke_super_init == <<111, 16, 1, 0, 1, 0>>          \* invoke-super {v1}, method@1
K_invoke_interface_ua == <<114, 16, 5, 0, 1, 0>>        \* invoke-interface {v1}, method@5
K_invoke_direct_Object == <<112, 16, 0, 0, 1, 0>>       \* invoke-direct {v1}, method@0
K_invoke_direct_Source == <<112, 16, 1, 0, 1, 0>>       \* invoke-direct {v1}, method@1
K_invoke_direct_Foo == <<112, 16, 2, 0, 1, 0>>          \* invoke-direct {v1}, method@2
K_invoke_direct_Gone == <<112, 16, 6, 0, 1, 0>>         \* invoke-direct {v1}, method@6
K_invoke_direct_nothere == <<112, 16, 7, 0, 1, 0>>      \* invoke-direct {v1}, method@7
K_invoke_direct_loop == <<112, 16, 9, 0, 1, 0>>         \* invoke-direct {v1}, method@9
K_invoke_direct_abs == <<112, 16, 10, 0, 1, 0>>         \* invoke-direct {v1}, method@10
K_invoke_virtual_helper == <<110, 16, 3, 0, 1, 0>>      \* invoke-virtual {v1}, method@3
K_invoke_virtual_fail == <<110, 16, 8, 0, 1, 0>>        \* invoke-virtual {v1}, method@8
K_invoke_virtual_init == <<110, 16, 1, 0, 1, 0>>        \* invoke-virtual {v1}, method@1
K_invoke_direct_fail == <<112, 16, 12, 0, 1, 0>>        \* invoke-direct {v1}, method@12
K_return_void == <<14, 0>>             \* return-void
K_return_v0 == <<15, 0>>               \* return v0
K_return_object_v0 == <<17, 0>>        \* return-object v0
K_throw_v0 == <<39, 0>>                \* throw v0
K_goto_back == <<40, 255>>             \* 28 FF       goto -1
\* invoke-static {v0, v2}, method@4 ; invoke-super {v1}, method@1
K_areEqual_then_super == <<113, 32, 4, 0, 32, 0, 111, 16, 1, 0, 1, 0>>
K_const4_v0_7 == <<18, 112>>           \* 12 70       const/4 v0, #7
K_iput_object_v2_v1_f0 == <<91, 18, 0, 0>>  \* iput-object v2, v1, field@0
K_const_string_v0_x == <<26, 0, 10, 0>>     \* const-string v0, string@10

\* the encodings a drawn body is assembled from
Chunks ==
  { K_const4_v0_F, K_const4_v5_1, K_const_string_v2_x, K_const_string_v0_bad,
    K_move_object_v2_v0, K_move_result_v2, K_move_result_object_v0,
    K_new_instance_v0_Foo, K_check_cast_v0,
    K_iput_object_v1_v1_f7, K_iget_object_v2_v1_f7,
    K_invoke_static_areEqual, K_invoke_super_init, K_invoke_interface_ua,
    K_invoke_direct_Source, K_invoke_direct_Foo, K_invoke_direct_Gone,
    K_invoke_direct_nothere, K_invoke_direct_loop, K_invoke_direct_abs,
    K_invoke_direct_fail,
    K_invoke_virtual_helper, K_invoke_virtual_fail, K_invoke_virtual_init,
    K_return_void, K_return_v0, K_throw_v0, K_goto_back,
    K_areEqual_then_super }

RECURSIVE Flatten(_)
Flatten(chunks) ==
  IF chunks = <<>> THEN <<>> ELSE Head(chunks) \o Flatten(Tail(chunks))

\* every instruction stream of at most MaxLen encoded instructions
Bodies == { Flatten(cs) : cs \in UNION { [1..n -> Chunks] : n \in 0..MaxLen } }

\* ---------------------------------------------------------------- decoded classes
\* types.rs DexClass: name, super_class (None when absent), methods by name.
\* getName of the main class has the drawn instruction stream.
MainClass(body) ==
  [name |-> "LMain;", super_class |-> DexString("LSource;"),
   methods |-> [n \in {"<init>", "getName"} |->
     IF n = "<init>"
     THEN DexMethod(3, K_invoke_direct_Object \o K_iput_object_v2_v1_f0 \o K_return_void)
     ELSE DexMethod(3, body)]]

SourceClass ==
  [name |-> "LSource;", super_class |-> DexString("Ljava/lang/Object;"),
   methods |-> [n \in {"<init>", "helper", "getName", "fail"} |->
     CASE n = "<init>" -> DexMethod(2, K_return_void)
       [] n = "helper" -> DexMethod(1, K_const4_v0_7 \o K_return_v0)
       [] n = "getName" -> DexMethod(1, K_const_string_v0_x \o K_return_object_v0)
       [] n = "fail" -> DexMethod(1, K_throw_v0)]]

FooClass ==
  [name |-> "LFoo;", super_class |-> DexString("Ljava/lang/Object;"),
   methods |-> [n \in {"<init>", "loop", "abs"} |->
     CASE n = "<init>" -> DexMethod(1, K_throw_v0)
       [] n = "loop" -> DexMethod(2, K_invoke_direct_loop \o K_return_void)
       [] n = "abs" -> DexMethod(0, <<>>)]]

\* Parser::parse_class_items: the classes decoded from the installed file
parse_class_items(body) == << FooClass, MainClass(body), SourceClass >>

\* ---------------------------------------------------------------- state
VARIABLES
  out_dir,          \* out/ as the install step left it: [data, classes]
  parser,           \* INTERPRETER singleton: [init, classes]; init = FALSE before creation
  heap,             \* Interpreter.heap: object id -> Object
  object_refs,      \* Interpreter.object_refs: the registered host receivers
  frames,           \* Interpreter.frames: the call stack
  main_idx,         \* Interpreter.main_idx
  next_object_id,   \* Interpreter.next_object_id
  runs,             \* the active run_with_class invocations, innermost last
  status,           \* "idle", "running", "returned", "spinning" or "panicked"
  panic,            \* the message of the panic that ended the process
  bridge,           \* the host-bridge call in progress: [op, stage, name]
                    \* (a unit call adds the offset at and, for a push, args)
  result,           \* what the last top-level call_method or unit call returned
  calls,            \* host-bridge calls made so far
  ids,              \* history: the ids returned by alloc_object / insert_object
  hist              \* history: the last two executed steps

vars == << out_dir, parser, heap, object_refs, frames, main_idx, next_object_id,
           runs, status, panic, bridge, result, calls, ids, hist >>

\* Parser.classes of a parser
classes_of(p) == p.classes

\* Parser.classes of the singleton
classes == classes_of(parser)

\* the class slot of a lookup that panicked
NoClass == [name |-> "", super_class |-> None, methods |-> << >>]

\* utils.rs class_file_to_class: "found" with the class read back from out/,
\* or the panic of the failing expect
class_file_to_class(path) ==
  LET stored == out_dir.classes
      hits == { k \in 1..Len(stored) : stored[k].name = path }
  IN IF ~ContainsSemicolon(path)
     THEN [ok |-> FALSE, cause |-> "Couldnt remove ;", class |-> NoClass]
     ELSE IF hits = {}
     THEN [ok |-> FALSE, cause |-> "Opening file failed", class |-> NoClass]
     ELSE [ok |-> TRUE, cause |-> "", class |-> stored[CHOOSE k \in hits : TRUE]]

\* Parser::parse followed by the save_* calls of the install step: the file's
\* bytes and the classes decoded from them, as written to out/
install(body) == [data |-> body, classes |-> parse_class_items(body)]

\* the empty field map / method map of a fresh Object
EmptyMap == << >>

\* format!("field@{}", instance_field_idx): key of Object.fields
field_key(instance_field_idx) == << "field@", instance_field_idx >>

\* format!("{}:{}{}", name, parameters, return_value): key of Object.methods
method_key(name, parameters, return_value) == << name, ":", parameters, return_value >>

\* format!("{}{}{}", name, parameters, return_value): signature probed on the host
host_signature(name, parameters, return_value) == << name, parameters, return_value >>

\* the host receivers the embedder may pass as context: what their class defines
HostObjects ==
  { [defines |-> { host_signature("getUserAgent", "()", "Ljava/lang/String;") }],
    [defines |-> {}] }

\* lib.rs has_method
has_method(obj, sig) == sig \in obj.defines

\* lib.rs call_method: a String result, or Null for anything else
HostReturns == { DexString("ua"), DexNull }

Frame(registers, class_idx, method_name) ==
  [registers |-> registers, temp |-> None, class_idx |-> class_idx,
   method_name |-> method_name, pc |-> 0]

\* a run_with_class invocation: the class it resolves methods in (a clone of
\* Parser.classes[idx] or of a class read from out/), the class_idx it hands
\* to execute, and (history) the call that started it and the stack depth of
\* the frame pushed for it
Run(from, name, class_idx, via, base) ==
  [from |-> from, name |-> name, class_idx |-> class_idx, via |-> via, base |-> base]

NoRun == Run("", "", 0, "", 0)

NoBridge == [op |-> "none", stage |-> "", name |-> ""]

\* one executed step: the instruction, the stack depth it ran at, the
\* run_with_class invocation that fetched it, its outcome and its value
Event(ins, depth, out, val) ==
  [ins |-> ins, depth |-> depth, out |-> out, val |-> val,
   run |-> IF runs = <<>> THEN NoRun ELSE Last(runs)]

Record(ev) == IF hist = <<>> THEN <<ev>> ELSE << Last(hist), ev >>

Init ==
  /\ \E body \in Bodies : out_dir = install(body)
  /\ parser = [init |-> FALSE, classes |-> <<>>]
  /\ heap = EmptyMap
  /\ object_refs = <<>>
  /\ frames = <<>>
  /\ main_idx = 0
  /\ next_object_id = 0
  /\ runs = <<>>
  /\ status = "idle"
  /\ panic = ""
  /\ bridge = NoBridge
  /\ result = None
  /\ calls = 0
  /\ ids = <<>>
  /\ hist = <<>>

\* ---------------------------------------------------------------- execute
\* The result of executing one instruction on the top frame f (whose pc the
\* run loop has already advanced):
\*   "next"   execute returned None; frame, heap and ids as given
\*   "return" execute returned Some(value)
\*   "call"   execute pushed the frame callee and entered run_with_class (run)
\*   "panic"  the process panicked with cause
\* val is recorded in the history of steps.
NoFrame == Frame(<<>>, 0, "")

NextOut(f) ==
  [kind |-> "next", frame |-> f, heap |-> heap, next_object_id |-> next_object_id,
   ids |-> ids, cause |-> "", value |-> None, callee |-> NoFrame, run |-> NoRun,
   val |-> None]

PanicOut(f, cause) == [NextOut(f) EXCEPT !.kind = "panic", !.cause = cause]

ReturnOut(f, value) == [NextOut(f) EXCEPT !.kind = "return", !.value = value, !.val = value]

RegOk(f, r) == InRange(f.registers, r)

Reg(f, r) == At(f.registers, r)

SetReg(f, r, v) == [f EXCEPT !.registers = SetAt(@, r, v)]

RegsPanic == "index out of bounds: registers"

\* DexContainer::method_id_to_string_offset unwraps method_id_items.get(id)
method_id_ok(method_idx) == InRange(method_id_items, method_idx)

\* the method name an invoke resolves: None when the name's string id is
\* outside string_id_items
method_name_of(method_idx) == string_of_id(At(method_id_items, method_idx).name_idx)

\* DexContainer::method_id_to_class_string_offset
method_id_to_class_string_offset(method_idx) == At(method_id_items, method_idx).class_idx

\* parser/class.rs get_name_of_class indexes type_id_items and string_id_items
get_name_of_class_ok(id) ==
  InRange(type_id_items, id) /\ InRange(strings, At(type_id_items, id))

get_name_of_class(id) == At(strings, At(type_id_items, id))

\* insert_object without the advance of next_object_id
insert_object_same_id(h, next, object) ==
  [id |-> next, next_object_id |-> next, heap |-> (next :> object) @@ h]

\* Interpreter::alloc_object / insert_object on the given heap: fresh id,
\* next_object_id advanced, the object stored under the id
insert_object(h, next, object) ==
  [id |-> next, next_object_id |-> next + 1, heap |-> (next :> object) @@ h]

alloc_object(h, next, class_name) ==
  insert_object(h, next, [class_name |-> class_name, fields |-> EmptyMap,
                          methods |-> EmptyMap])

\* Interpreter::push_frame_with_class: the frame it pushes, or its panic
push_frame_with_class(class, class_idx, method_name, args) ==
  IF method_name \notin DOMAIN class.methods
  THEN [ok |-> FALSE, cause |-> "method not found", frame |-> NoFrame]
  ELSE LET method_regs == class.methods[method_name].registers
       IN IF Len(args) > 0 /\ method_regs - 2 > Len(args)
          THEN [ok |-> FALSE, cause |-> "index out of bounds: args", frame |-> NoFrame]
          ELSE [ok |-> TRUE, cause |-> "",
                frame |-> Frame([k \in 1..method_regs |->
                                   IF Len(args) > 0 /\ k - 1 >= 2
                                   THEN At(args, (k - 1) - 2) ELSE DexNull],
                                class_idx, method_name)]

exec_ConstString(f, i) ==
  IF ~InRange(strings, i.c) THEN PanicOut(f, "index out of bounds: strings")
  ELSE IF ~RegOk(f, i.a) THEN PanicOut(f, RegsPanic)
  ELSE NextOut(SetReg(f, i.a, DexString(At(strings, i.c))))

exec_Const4Bit(f, i) ==
  IF ~RegOk(f, i.a) THEN PanicOut(f, RegsPanic)
  ELSE NextOut(SetReg(f, i.a, DexInt(i.b)))

exec_MoveObject(f, i) ==
  IF ~RegOk(f, i.b) \/ ~RegOk(f, i.a) THEN PanicOut(f, RegsPanic)
  ELSE NextOut(SetReg(f, i.a, Reg(f, i.b)))

\* move-result that leaves the pending result in place
exec_MoveResult_keeps_temp(f, i) ==
  IF f.temp = None THEN NextOut(f)
  ELSE IF ~RegOk(f, i.a) THEN PanicOut(f, RegsPanic)
  ELSE [NextOut(SetReg(f, i.a, f.temp)) EXCEPT !.val = f.temp]

\* move-result that writes Null when there is no pending result
exec_MoveResult_writes_default(f, i) ==
  IF f.temp = None
  THEN IF ~RegOk(f, i.a) THEN PanicOut(f, RegsPanic) ELSE NextOut(SetReg(f, i.a, DexNull))
  ELSE IF ~RegOk(f, i.a) THEN PanicOut(f, RegsPanic)
  ELSE [NextOut([SetReg(f, i.a, f.temp) EXCEPT !.temp = None]) EXCEPT !.val = f.temp]

\* MoveResultObject and MoveResult
exec_MoveResult(f, i) ==
  IF f.temp = None THEN NextOut(f)
  ELSE IF ~RegOk(f, i.a) THEN PanicOut(f, RegsPanic)
  ELSE [NextOut([SetReg(f, i.a, f.temp) EXCEPT !.temp = None]) EXCEPT !.val = f.temp]

\* invoke-static whose areEqual stores the comparison without asserting it
exec_InvokeStatic_no_assert(f, i) ==
  IF Len(i.args) < 2 THEN NextOut(f)
  ELSE IF ~RegOk(f, At(i.args, 0)) \/ ~RegOk(f, At(i.args, 1)) THEN PanicOut(f, RegsPanic)
  ELSE IF ~method_id_ok(i.c) THEN PanicOut(f, "unwrap on None: method_id_items")
  ELSE IF method_name_of(i.c) = None THEN NextOut(f)
  ELSE IF ~get_name_of_class_ok(method_id_to_class_string_offset(i.c))
       THEN PanicOut(f, "index out of bounds: type_id_items")
  ELSE IF method_name_of(i.c).s = "areEqual"
       THEN NextOut([f EXCEPT !.temp = DexBoolean(Reg(f, At(i.args, 0)) = Reg(f, At(i.args, 1)))])
       ELSE NextOut(f)

exec_InvokeStatic(f, i) ==
  IF Len(i.args) < 2 THEN NextOut(f)
  ELSE IF ~RegOk(f, At(i.args, 0)) \/ ~RegOk(f, At(i.args, 1)) THEN PanicOut(f, RegsPanic)
  ELSE IF ~method_id_ok(i.c) THEN PanicOut(f, "unwrap on None: method_id_items")
  ELSE IF method_name_of(i.c) = None THEN NextOut(f)
  ELSE IF ~get_name_of_class_ok(method_id_to_class_string_offset(i.c))
       THEN PanicOut(f, "index out of bounds: type_id_items")
  ELSE LET method_name == method_name_of(i.c).s
           first == Reg(f, At(i.args, 0))
           second == Reg(f, At(i.args, 1))
       IN CASE method_name = "areEqual" ->
                 IF Len(i.args) # 2 THEN PanicOut(f, "areEqual requires 2 parameters")
                 ELSE IF first # second THEN PanicOut(f, "assertion failed: not equal")
                 ELSE NextOut([f EXCEPT !.temp = DexBoolean(first = second)])
            [] method_name = "checkNotNullParameter" ->
                 IF second = DexNull THEN PanicOut(f, "assertion failed: NullPointerException")
                 ELSE NextOut(f)
            [] OTHER -> NextOut(f)

exec_InvokeSuper(f, i) ==
  IF ~method_id_ok(i.c) THEN PanicOut(f, "unwrap on None: method_id_items")
  ELSE IF method_name_of(i.c) = None THEN NextOut(f)
  ELSE IF ~get_name_of_class_ok(method_id_to_class_string_offset(i.c))
       THEN PanicOut(f, "index out of bounds: type_id_items")
  ELSE NextOut(f)

\* InvokeInterface. ret_value: what the host returns to the last call_method
\* made during the walk (each call overwrites frame.temp). No Object ever
\* holds an inline native implementation (the bridge inserts None slots and
\* alloc_object an empty table), so only the host path can set temp.
exec_InvokeInterface(f, i, ret_value) ==
  IF ~method_id_ok(i.c) THEN PanicOut(f, "unwrap on None: method_id_items")
  ELSE IF method_name_of(i.c) = None THEN NextOut(f)
  ELSE IF ~get_name_of_class_ok(method_id_to_class_string_offset(i.c))
       THEN PanicOut(f, "index out of bounds: type_id_items")
  ELSE IF 1 \notin DOMAIN heap THEN PanicOut(f, "unwrap on None: heap.get(1)")
  ELSE LET method_name == method_name_of(i.c).s
           parameters == "()"
           return_value == "Ljava/lang/String;"
           object == heap[1]
           objectFields == { k \in DOMAIN object.fields : object.fields[k].t = "Object" }
           dangling == { k \in objectFields : object.fields[k].n \notin DOMAIN heap }
           found == { k \in objectFields \ dangling :
                        method_key(method_name, parameters, return_value)
                          \in DOMAIN heap[object.fields[k].n].methods }
           signature == host_signature(method_name, parameters, return_value)
           receivers == { r \in 1..Len(object_refs) : has_method(object_refs[r], signature) }
       IN IF dangling # {} THEN PanicOut(f, "unwrap on None: heap.get(id)")
          ELSE IF found # {} /\ receivers # {}
          THEN [NextOut([f EXCEPT !.temp = ret_value]) EXCEPT !.val = ret_value]
          ELSE NextOut(f)

\* the argument registers of an invoke copied into call_args
call_args_ok(f, args) == \A k \in 1..Len(args) : RegOk(f, args[k])

call_args(f, args) == [k \in 1..Len(args) |-> Reg(f, args[k])]

\* push_frame_with_class followed by run_with_class on a class read from out/
CallOut(f, loaded_class, class_idx, method_name, args, via) ==
  LET pushed == push_frame_with_class(loaded_class, class_idx, method_name, args)
  IN IF ~pushed.ok THEN PanicOut(f, pushed.cause)
     ELSE [NextOut(f) EXCEPT !.kind = "call", !.callee = pushed.frame,
             !.run = Run("out", loaded_class.name, class_idx, via, Len(frames) + 1)]

exec_InvokeDirect(f, i) ==
  IF ~method_id_ok(i.c) THEN PanicOut(f, "unwrap on None: method_id_items")
  ELSE IF method_name_of(i.c) = None THEN NextOut(f)
  ELSE IF ~get_name_of_class_ok(method_id_to_class_string_offset(i.c))
       THEN PanicOut(f, "index out of bounds: type_id_items")
  ELSE LET method_name == method_name_of(i.c).s
           class_name_idx == method_id_to_class_string_offset(i.c)
           class_name == get_name_of_class(class_name_idx)
           loaded_class == class_file_to_class(class_name)
       IN IF ContainsJavaLang(class_name) THEN NextOut(f)
          ELSE IF ~loaded_class.ok THEN PanicOut(f, loaded_class.cause)
          ELSE IF ~call_args_ok(f, i.args) THEN PanicOut(f, RegsPanic)
          ELSE CallOut(f, loaded_class.class, class_name_idx, method_name,
                       call_args(f, i.args), "InvokeDirect")

\* InvokeVirtual; class_idx is the class_idx the run loop hands to execute
exec_InvokeVirtual(f, i, class_idx) ==
  IF ~method_id_ok(i.c) THEN PanicOut(f, "unwrap on None: method_id_items")
  ELSE IF method_name_of(i.c) = None THEN NextOut(f)
  ELSE IF ~get_name_of_class_ok(method_id_to_class_string_offset(i.c))
       THEN PanicOut(f, "index out of bounds: type_id_items")
  ELSE LET method_name == method_name_of(i.c).s
           class_name_idx == method_id_to_class_string_offset(i.c)
           class_name == get_name_of_class(class_name_idx)
       IN IF ~InRange(classes, class_idx) THEN PanicOut(f, "index out of bounds: classes")
          ELSE IF class_name \in DOMAIN At(classes, class_idx).methods THEN NextOut(f)
          ELSE IF At(classes, class_idx).super_class = None
               THEN PanicOut(f, "unwrap on None: super_class")
          ELSE LET loaded_class == class_file_to_class(At(classes, class_idx).super_class.s)
               IN IF ~loaded_class.ok THEN PanicOut(f, loaded_class.cause)
                  ELSE IF ~call_args_ok(f, i.args) THEN PanicOut(f, RegsPanic)
                  ELSE CallOut(f, loaded_class.class, class_name_idx, method_name,
                               call_args(f, i.args), "InvokeVirtual")

\* iput that stores under the key of the next field index
exec_IPut_other_field(f, i, coerce) ==
  IF ~RegOk(f, i.b) THEN PanicOut(f, RegsPanic)
  ELSE LET obj == Reg(f, i.b)
       IN IF obj.t = "Object" /\ obj.n \in DOMAIN heap
          THEN IF ~RegOk(f, i.a) THEN PanicOut(f, RegsPanic)
               ELSE [NextOut(f) EXCEPT
                       !.heap = [heap EXCEPT ![obj.n].fields =
                                   (field_key(i.c + 1) :> Reg(f, i.a)) @@ @],
                       !.val = Reg(f, i.a)]
          ELSE NextOut(f)

\* IPutObject (coerce = FALSE) and IPutBoolean (coerce = TRUE)
exec_IPut(f, i, coerce) ==
  IF ~RegOk(f, i.b) THEN PanicOut(f, RegsPanic)
  ELSE LET obj == Reg(f, i.b)
       IN IF obj.t = "Object" /\ obj.n \in DOMAIN heap
          THEN IF ~RegOk(f, i.a) THEN PanicOut(f, RegsPanic)
               ELSE LET value == Reg(f, i.a)
                        stored == IF coerce THEN to_boolean(value) ELSE value
                    IN IF stored = None THEN PanicOut(f, "unwrap on None: to_boolean")
                       ELSE [NextOut(f) EXCEPT
                               !.heap = [heap EXCEPT ![obj.n].fields =
                                           (field_key(i.c) :> stored) @@ @],
                               !.val = stored]
          ELSE NextOut(f)

\* IGetObject and IGetBoolean
exec_IGet(f, i) ==
  IF ~RegOk(f, i.b) THEN PanicOut(f, RegsPanic)
  ELSE LET obj == Reg(f, i.b)
       IN IF obj.t = "Object" /\ obj.n \in DOMAIN heap
          THEN IF field_key(i.c) \notin DOMAIN heap[obj.n].fields
               THEN PanicOut(f, "key not found: fields")
               ELSE IF ~RegOk(f, i.a) THEN PanicOut(f, RegsPanic)
               ELSE [NextOut(SetReg(f, i.a, heap[obj.n].fields[field_key(i.c)])) EXCEPT
                       !.val = heap[obj.n].fields[field_key(i.c)]]
          ELSE NextOut(f)

\* NewInstance, through Interpreter::alloc_object_and_assign
exec_NewInstance(f, i) ==
  LET string_idx == IF type_to_string_id(i.c) = -1 THEN 0 ELSE type_to_string_id(i.c)
  IN IF ~InRange(strings, string_idx) THEN NextOut(f)
     ELSE LET a == alloc_object(heap, next_object_id, At(strings, string_idx))
          IN IF ~RegOk(f, i.a) THEN PanicOut(f, RegsPanic)
             ELSE [NextOut(SetReg(f, i.a, DexObject(a.id))) EXCEPT
                     !.heap = a.heap, !.next_object_id = a.next_object_id,
                     !.ids = Append(ids, a.id), !.val = DexObject(a.id)]

exec_CheckCast(f, i) == NextOut(f)

\* ReturnVoid, ReturnObject and Return
exec_Return(f, i) ==
  IF i.op = "ReturnVoid" THEN ReturnOut(f, DexVoid)
  ELSE IF ~RegOk(f, i.a) THEN PanicOut(f, RegsPanic)
  ELSE ReturnOut(f, Reg(f, i.a))

\* a default arm that takes the branch of a goto
exec_Unimplemented_branches(f, i) ==
  NextOut(IF i.op = "Goto" THEN [f EXCEPT !.pc = @ - 1 + i.b] ELSE f)

\* the default arm: every other decoded instruction
exec_Unimplemented(f, i) == NextOut(f)

ImplementedOps ==
  { "ConstString", "Const4Bit", "MoveObject", "MoveResultObject", "MoveResult",
    "InvokeStatic", "InvokeSuper", "InvokeInterface", "InvokeDirect", "InvokeVirtual",
    "IPutObject", "IPutBoolean", "IGetObject", "IGetBoolean", "NewInstance",
    "CheckCast", "ReturnVoid", "ReturnObject", "Return" }

\* ---------------------------------------------------------------- run_with_class
Top == Last(frames)

CurRun == Last(runs)

\* the class a run_with_class invocation resolves frame.method_name in
RunClass(r) ==
  IF r.from = "classes" THEN At(classes, r.class_idx)
  ELSE class_file_to_class(r.name).class

CurClass == RunClass(CurRun)

MethodFound == Top.method_name \in DOMAIN CurClass.methods

CurMethod == CurClass.methods[Top.method_name]

\* the invocation prelude of the run loop (frame.pc == 0)
Prelude(f) ==
  IF f.pc # 0 THEN f
  ELSE IF Len(f.registers) < 2 THEN SetReg(f, 0, DexObject(1))
  ELSE SetReg(f, 1, DexObject(1))

PreludePanics(f) == f.pc = 0 /\ Len(f.registers) = 0

\* the loop fetches an instruction for the top frame
Fetches ==
  /\ status = "running"
  /\ MethodFound
  /\ ~PreludePanics(Top)
  /\ Top.pc < Len(CurMethod.instructions)

\* the fetched instruction, and the frame as execute sees it
Fetched == At(CurMethod.instructions, Top.pc)

Entered == [Prelude(Top) EXCEPT !.pc = @ + 1]

ReplaceTop(f) == [frames EXCEPT ![Len(frames)] = f]

\* every enclosing run loop finds the frame stack empty and returns None
AllRunsExit ==
  /\ runs' = <<>>
  /\ result' = None
  /\ status' = "returned"

\* the effect of one loop iteration whose execute produced o
Apply(o) ==
  /\ hist' = Record(Event(Fetched, Len(frames), o.kind, o.val))
  /\ UNCHANGED << out_dir, parser, object_refs, main_idx, bridge, calls >>
  /\ CASE o.kind = "next" ->
            /\ frames' = ReplaceTop(o.frame)
            /\ heap' = o.heap
            /\ next_object_id' = o.next_object_id
            /\ ids' = o.ids
            /\ UNCHANGED << runs, status, panic, result >>
       [] o.kind = "panic" ->
            /\ status' = "panicked"
            /\ panic' = o.cause
            /\ UNCHANGED << frames, heap, next_object_id, ids, runs, result >>
       [] o.kind = "call" ->
            /\ Len(frames) < MaxDepth
            /\ frames' = Append(ReplaceTop(o.frame), o.callee)
            /\ runs' = Append(runs, o.run)
            /\ UNCHANGED << heap, next_object_id, ids, status, panic, result >>
       [] o.kind = "return" ->
            \* return_value = Some(value); pop_frame; break
            /\ frames' = Front(frames)
            /\ UNCHANGED << heap, next_object_id, ids, panic >>
            /\ IF Len(runs) = 1
               THEN /\ runs' = <<>>
                    /\ result' = o.value
                    /\ status' = "returned"
               ELSE \* the invoke that called this run discards the value
                    IF Front(frames) = <<>>
                    THEN AllRunsExit
                    ELSE /\ runs' = Front(runs)
                         /\ UNCHANGED << status, result >>

\* the top frame's method is not in the class of this run: the loop body
\* does nothing and the loop condition still holds
RunSpin ==
  /\ status = "running"
  /\ ~MethodFound
  /\ status' = "spinning"
  /\ hist' = Record(Event(Instr("spin", 0, 0, 0, <<>>), Len(frames), "spin", None))
  /\ UNCHANGED << out_dir, parser, heap, object_refs, frames, main_idx, next_object_id,
                  runs, panic, bridge, result, calls, ids >>

\* frame.registers[0] = Object(1) on a frame without registers
RunPreludePanic ==
  /\ status = "running"
  /\ MethodFound
  /\ PreludePanics(Top)
  /\ status' = "panicked"
  /\ panic' = RegsPanic
  /\ hist' = Record(Event(Instr("prelude", 0, 0, 0, <<>>), Len(frames), "panic", None))
  /\ UNCHANGED << out_dir, parser, heap, object_refs, frames, main_idx, next_object_id,
                  runs, bridge, result, calls, ids >>

\* frame.pc >= method.instructions.len(): pop_frame; continue
RunPopAtEnd ==
  /\ status = "running"
  /\ MethodFound
  /\ ~PreludePanics(Top)
  /\ Top.pc >= Len(CurMethod.instructions)
  /\ frames' = Front(frames)
  /\ hist' = Record(Event(Instr("end", 0, 0, 0, <<>>), Len(frames), "pop", None))
  /\ IF Front(frames) = <<>> THEN AllRunsExit ELSE UNCHANGED << runs, result, status >>
  /\ UNCHANGED << out_dir, parser, heap, object_refs, main_idx, next_object_id,
                  panic, bridge, calls, ids >>

ExecConstString == Fetches /\ Fetched.op = "ConstString" /\ Apply(exec_ConstString(Entered, Fetched))

ExecConst4Bit == Fetches /\ Fetched.op = "Const4Bit" /\ Apply(exec_Const4Bit(Entered, Fetched))

ExecMoveObject == Fetches /\ Fetched.op = "MoveObject" /\ Apply(exec_MoveObject(Entered, Fetched))

ExecMoveResult ==
  /\ Fetches
  /\ Fetched.op \in {"MoveResultObject", "MoveResult"}
  /\ Apply(exec_MoveResult(Entered, Fetched))

ExecInvokeStatic == Fetches /\ Fetched.op = "InvokeStatic" /\ Apply(exec_InvokeStatic(Entered, Fetched))

ExecInvokeSuper == Fetches /\ Fetched.op = "InvokeSuper" /\ Apply(exec_InvokeSuper(Entered, Fetched))

ExecInvokeInterface ==
  /\ Fetches
  /\ Fetched.op = "InvokeInterface"
  /\ \E ret_value \in HostReturns : Apply(exec_InvokeInterface(Entered, Fetched, ret_value))

ExecInvokeDirect == Fetches /\ Fetched.op = "InvokeDirect" /\ Apply(exec_InvokeDirect(Entered, Fetched))

ExecInvokeVirtual ==
  /\ Fetches
  /\ Fetched.op = "InvokeVirtual"
  /\ Apply(exec_InvokeVirtual(Entered, Fetched, CurRun.class_idx))

ExecIPut ==
  /\ Fetches
  /\ Fetched.op \in {"IPutObject", "IPutBoolean"}
  /\ Apply(exec_IPut(Entered, Fetched, Fetched.op = "IPutBoolean"))

ExecIGet ==
  /\ Fetches
  /\ Fetched.op \in {"IGetObject", "IGetBoolean"}
  /\ Apply(exec_IGet(Entered, Fetched))

ExecNewInstance == Fetches /\ Fetched.op = "NewInstance" /\ Apply(exec_NewInstance(Entered, Fetched))

ExecCheckCast == Fetches /\ Fetched.op = "CheckCast" /\ Apply(exec_CheckCast(Entered, Fetched))

ExecReturn ==
  /\ Fetches
  /\ Fetched.op \in {"ReturnVoid", "ReturnObject", "Return"}
  /\ Apply(exec_Return(Entered, Fetched))

ExecUnimplemented ==
  /\ Fetches
  /\ Fetched.op \notin ImplementedOps
  /\ Apply(exec_Unimplemented(Entered, Fetched))

\* ---------------------------------------------------------------- host bridge
\* lib.rs get_or_init_interpreter: the singleton's parser is read from the
\* files of out/ only when the singleton does not exist yet
get_or_init_interpreter ==
  IF parser.init THEN parser ELSE [init |-> TRUE, classes |-> out_dir.classes]

\* the method names the embedder passes to extension_call_method
CallNames == { "getName" }

BridgeEvent(op, out) == Event(Instr(op, 0, 0, 0, <<>>), Len(frames), out, None)

BridgePanic(op, cause) ==
  /\ status' = "panicked"
  /\ panic' = cause
  /\ hist' = Record(BridgeEvent(op, "panic"))
  /\ UNCHANGED << frames, runs, result >>

\* Interpreter::call_method up to the first iteration of the run loop:
\* push_frame on p.classes[class_idx], then run(class_idx)
call_method(p, class_idx, method_name, args, op) ==
  IF ~InRange(classes_of(p), class_idx)
  THEN BridgePanic(op, "index out of bounds: classes")
  ELSE LET class == At(classes_of(p), class_idx)
           pushed == push_frame_with_class(class, class_idx, method_name, args)
       IN IF ~pushed.ok THEN BridgePanic(op, pushed.cause)
          ELSE /\ frames' = Append(frames, pushed.frame)
               /\ runs' = << Run("classes", class.name, class_idx, "call_method",
                                 Len(frames) + 1) >>
               /\ status' = "running"
               /\ hist' = Record(BridgeEvent(op, "call"))
               /\ UNCHANGED << panic, result >>

\* Java_mihonx_runner_RustBridge_rustExtensionGetName, up to the start of
\* the run of <init>
ExtensionGetName ==
  /\ status = "idle"
  /\ calls < MaxCalls
  /\ \E ctx \in HostObjects :
       LET p == get_or_init_interpreter
           mains == { k \in 1..Len(classes_of(p)) :
                        classes_of(p)[k].super_class # None
                        /\ ContainsSource(classes_of(p)[k].super_class.s) }
           idx == (CHOOSE k \in mains : \A j \in mains : k <= j) - 1
           ctxObject == [class_name |-> "mihonx.ExtensionContextImpl",
                         fields |-> EmptyMap,
                         methods |-> (method_key("getUserAgent", "()", "Ljava/lang/String;")
                                        :> "None")]
           inserted == insert_object(heap, next_object_id, ctxObject)
           allocated == alloc_object(inserted.heap, inserted.next_object_id,
                                     At(classes_of(p), idx).name)
       IN /\ parser' = p
          /\ calls' = calls + 1
          /\ object_refs' = Append(object_refs, ctx)
          /\ bridge' = [op |-> "extension_get_name", stage |-> "<init>", name |-> "<init>"]
          /\ UNCHANGED out_dir
          /\ IF mains = {}
             THEN /\ BridgePanic("extension_get_name", "No Main Class found.")
                  /\ UNCHANGED << main_idx, heap, next_object_id, ids >>
             ELSE IF "<init>" \notin DOMAIN At(classes_of(p), idx).methods
             THEN /\ BridgePanic("extension_get_name", "No <init> method found for main class")
                  /\ UNCHANGED << main_idx, heap, next_object_id, ids >>
             ELSE /\ main_idx' = idx
                  /\ heap' = allocated.heap
                  /\ next_object_id' = allocated.next_object_id
                  /\ ids' = ids \o << inserted.id, allocated.id >>
                  /\ call_method(p, idx, "<init>", << DexObject(inserted.id) >>,
                                 "extension_get_name")

\* rustExtensionGetName after call_method(<init>) returned: unwrap, then
\* call_method(main_idx, "getName", [])
ExtensionGetNameInitDone ==
  /\ status = "returned"
  /\ bridge.op = "extension_get_name"
  /\ bridge.stage = "<init>"
  /\ bridge' = [bridge EXCEPT !.stage = "getName", !.name = "getName"]
  /\ UNCHANGED << out_dir, parser, heap, object_refs, main_idx, next_object_id, calls, ids >>
  /\ IF result = None
     THEN BridgePanic("extension_get_name", "unwrap on None: call_method")
     ELSE call_method(parser, main_idx, "getName", <<>>, "extension_get_name")

\* rustExtensionGetName after call_method(getName) returned: unwrap and
\* hand the name to the host
ExtensionGetNameDone ==
  /\ status = "returned"
  /\ bridge.op = "extension_get_name"
  /\ bridge.stage = "getName"
  /\ UNCHANGED << out_dir, parser, heap, object_refs, main_idx, next_object_id, calls, ids,
                  frames, runs, result >>
  /\ IF result = None
     THEN /\ status' = "panicked"
          /\ panic' = "unwrap on None: call_method"
          /\ hist' = Record(BridgeEvent("extension_get_name", "panic"))
          /\ UNCHANGED bridge
     ELSE /\ status' = "idle"
          /\ bridge' = NoBridge
          /\ hist' = Record(BridgeEvent("extension_get_name", "done"))
          /\ UNCHANGED panic

\* Java_mihonx_runner_RustBridge_rustExtensionCallMethod, up to the start of
\* the run
ExtensionCallMethod ==
  /\ status = "idle"
  /\ calls < MaxCalls
  /\ \E method_name \in CallNames :
       /\ parser' = get_or_init_interpreter
       /\ calls' = calls + 1
       /\ bridge' = [op |-> "extension_call_method", stage |-> "run", name |-> method_name]
       /\ UNCHANGED << out_dir, heap, object_refs, main_idx, next_object_id, ids >>
       /\ call_method(get_or_init_interpreter, main_idx, method_name, <<>>,
                      "extension_call_method")

\* rustExtensionCallMethod after call_method returned: unwrap, then print
\* heap[&id] for an Object result
ExtensionCallMethodDone ==
  /\ status = "returned"
  /\ bridge.op = "extension_call_method"
  /\ UNCHANGED << out_dir, parser, heap, object_refs, main_idx, next_object_id, calls, ids,
                  frames, runs, result >>
  /\ IF result = None \/ (result.t = "Object" /\ result.n \notin DOMAIN heap)
     THEN /\ status' = "panicked"
          /\ panic' = IF result = None THEN "unwrap on None: call_method"
                      ELSE "key not found: heap"
          /\ hist' = Record(BridgeEvent("extension_call_method", "panic"))
          /\ UNCHANGED bridge
     ELSE /\ status' = "idle"
          /\ bridge' = NoBridge
          /\ hist' = Record(BridgeEvent("extension_call_method", "done"))
          /\ UNCHANGED panic

\* ---------------------------------------------------------------- specification
\* Java_mihonx_runner_RustBridge_rustInstallExtension between two bridge
\* calls: Parser::new(bytes).parse() decodes the file and saves it to out/;
\* the INTERPRETER singleton is not touched.  The file installed has a
\* getName that is a single return-void.
InstallExtension ==
  /\ status = "idle"
  /\ \E body \in { K_return_void } : out_dir' = install(body)
  /\ UNCHANGED << parser, heap, object_refs, frames, main_idx, next_object_id, runs,
                  status, panic, bridge, result, calls, ids, hist >>

Next ==
  \/ InstallExtension
  \/ ExtensionGetName
  \/ ExtensionGetNameInitDone
  \/ ExtensionGetNameDone
  \/ ExtensionCallMethod
  \/ ExtensionCallMethodDone
  \/ RunSpin
  \/ RunPreludePanic
  \/ RunPopAtEnd
  \/ ExecConstString
  \/ ExecConst4Bit
  \/ ExecMoveObject
  \/ ExecMoveResult
  \/ ExecInvokeStatic
  \/ ExecInvokeSuper
  \/ ExecInvokeInterface
  \/ ExecInvokeDirect
  \/ ExecInvokeVirtual
  \/ ExecIPut
  \/ ExecIGet
  \/ ExecNewInstance
  \/ ExecCheckCast
  \/ ExecReturn
  \/ ExecUnimplemented

Spec == Init /\ [][Next]_vars

\* ---------------------------------------------------------------- units
\* The functions the install step, the bridge and the interpreter apply to
\* the bytes of a dex file, each applied once to bytes drawn from Blobs.
\* Text is kept as the sequence of its byte codes ("v" is 118, a double quote
\* is 34).

\* the most arguments a drawn call passes
MaxArgs == 2

\* the most values a drawn encoded_array holds
MaxValues == 2

\* the longest string, in characters, of the drawn string payloads
MaxString == 3
MaxWord == 8
MaxStream == 3

\* the bytes a ULEB128 encoding of a u32 takes at most: 5 groups of 7 bits
UlebMaxBytes == 5

\* the byte strings the parser is given, by what they hold:
\*   "dex"     an 8-byte header magic: 'd' 'e' 'x' '\n', three ASCII digits,
\*             a NUL byte
\*   "invoke"  the insns of a method holding one format-35c invoke:
\*             op, A|G, method index (2 bytes), D|C, F|E
\*   "uleb"    one to UlebMaxBytes ULEB128 bytes that hold a value below
\*             2^32, alone or followed by a further byte
\*   "string"  a data section holding one string_data_item, at offset 0 or
\*             after one other byte: the ULEB128 length, the characters
\*             (NUL as C0 80), a 00 terminator; the characters are NUL, 'A'
\*             and DEL, at most MaxString of them
\*   "array"   a data section holding one encoded_array, at offset 0 or after
\*             one other byte: the ULEB128 count, then each value as its tag
\*             byte (type | (size - 1) << 5) and its payload in the fewest
\*             little-endian bytes: bytes -1 and 5, shorts -1 and 300, ints -1,
\*             -129, 70000 and -2^31, longs -1 and 5, chars 'A' and FFFF, the
\*             booleans and null
\*   "code"    the first two bytes of a code_item: registers_size, from 0 to
\*             MaxArgs + 3
Blobs ==
  [ kind \in { "dex", "invoke", "uleb", "string", "array", "code", "word",
               "stream", "opcode", "statics" } |->
  CASE kind = "dex" ->
         { <<100, 101, 120, 10>> \o v \o <<0>> : v \in [1..3 -> 48..57] }
    [] kind = "invoke" ->
         { << op, 16 * A + G, 3, 0, 16 * D + C, 16 * F + E >> :
             op \in 110..114, A \in 0..5, C \in {1, 9}, D \in {2, 10},
             E \in {3, 11}, F \in {4, 12}, G \in {5, 13} }
    [] kind = "uleb" ->
         LET More == {128, 142, 229, 255}
             Stop(n) == IF n = UlebMaxBytes THEN {1, 15} ELSE {0, 1, 38, 127}
         IN UNION { { front \o <<stop>> \o tail :
                        front \in [1..(n - 1) -> More], stop \in Stop(n),
                        tail \in { <<>>, <<255>> } } : n \in 1..UlebMaxBytes }
    [] kind = "string" ->
         LET RECURSIVE mutf8(_)
             mutf8(str) == IF str = <<>> THEN <<>>
                           ELSE (IF Head(str) = 0 THEN <<192, 128>> ELSE <<Head(str)>>)
                                \o mutf8(Tail(str))
         IN { pad \o <<Len(str)>> \o mutf8(str) \o <<0>> :
                pad \in { <<>>, <<7>> },
                str \in UNION { [1..n -> {0, 65, 127}] : n \in 0..MaxString } }
    [] kind = "array" ->
         LET Values == << <<0, 255>>, <<0, 5>>, <<2, 255>>, <<34, 44, 1>>,
                          <<4, 255>>, <<36, 127, 255>>, <<68, 112, 17, 1>>,
                          <<100, 0, 0, 0, 128>>, <<6, 255>>, <<6, 5>>, <<3, 65>>,
                          <<35, 255, 255>>, <<31>>, <<63>>, <<30>> >>
             RECURSIVE items(_, _)
             items(pick, k) == IF k > Len(pick) THEN <<>>
                               ELSE Values[pick[k]] \o items(pick, k + 1)
         IN { pad \o <<Len(pick)>> \o items(pick, 1) :
                pad \in { <<>>, <<7>> },
                pick \in UNION { [1..n -> 1..Len(Values)] : n \in 0..MaxValues } }
    [] kind = "code" -> { << r, 0 >> : r \in 0..(MaxArgs + 3) }
    [] kind = "statics" ->
         \* a data section: one byte, then the encoded_array of a class's
         \* static values (an int, a char or null each)
         LET Values == << <<4, 255>>, <<3, 65>>, <<30>> >>
             RECURSIVE items(_, _)
             items(pick, k) == IF k > Len(pick) THEN <<>>
                               ELSE Values[pick[k]] \o items(pick, k + 1)
         IN { <<200, Len(pick)>> \o items(pick, 1) :
                pick \in UNION { [1..n -> 1..Len(Values)] : n \in 0..MaxValues } }
    [] kind = "word" -> UNION { [1..n -> {9, 200}] : n \in 1..MaxWord }
    [] kind = "stream" ->
         \* well-formed instructions in their standard formats: nop, move/16
         \* v14, v14, move-wide/16 v14, v14, fill-array-data v0, +14, goto/16
         \* +14, return-void, const/4 v0, #7, const-string v0, string@10,
         \* invoke-virtual {v1}, method@3
         LET Insns == { <<0, 0>>, <<3, 0, 14, 0, 14, 0>>, <<6, 0, 14, 0, 14, 0>>,
                        <<38, 0, 14, 0, 0, 0>>, <<41, 0, 14, 0>>, <<14, 0>>,
                        <<18, 112>>, <<26, 0, 10, 0>>, <<110, 16, 3, 0, 1, 0>> }
         IN { Flatten(pick) : pick \in UNION { [1..n -> Insns] : n \in 1..MaxStream } }
    [] kind = "opcode" ->
         \* one opcode byte in front of const/4 v0, #7
         { <<op, 18, 112>> :
             op \in {0, 7, 10, 12, 14, 15, 17, 18, 39, 40, 42} \cup (62..67)
                      \cup {115, 121, 122} \cup (227..252) } ]

\* parser.rs parse_header: the magic is the first 8 bytes of the file
\* (get_bytes::<8> panics on a shorter file)
parse_header(bytes) ==
  IF Len(bytes) < 8
  THEN [ok |-> FALSE, cause |-> "range end index out of range",
        header_item |-> [magic |-> <<>>]]
  ELSE [ok |-> TRUE, cause |-> "", header_item |-> [magic |-> SubSeq(bytes, 1, 8)]]

\* lib.rs rustGetDexVersion:
\*   format!("v{:?}", String::from_utf8(header_item.magic[4..6].into()))
\* magic[4..6] is the two bytes at indices 4 and 5; they are ASCII digits or
\* NUL-free ASCII letters in every drawn header, so from_utf8 is Ok(s) and
\* its Debug form is Ok("s") with s unescaped
get_dex_version(header_item) ==
  LET version == SubSeq(header_item.magic, 5, 6)
  IN << 118, 79, 107, 40, 34 >> \o version \o << 34, 41 >>

\* the same with every 7-bit group placed 8 bits above the one before
read_uleb128_shift8(data, offset) ==
  LET RECURSIVE loop(_, _, _)
      loop(off, res, shift) ==
        IF ~InRange(data, off)
        THEN [ok |-> FALSE, cause |-> "index out of bounds: data",
              value |-> res, offset |-> off]
        ELSE IF shift >= 32
        THEN [ok |-> FALSE, cause |-> "attempt to shift left with overflow",
              value |-> res, offset |-> off]
        ELSE LET byte == At(data, off)
                 r == [k \in 1..32 |->
                         IF \/ res[k] = 1
                            \/ /\ k - 1 >= shift
                               /\ k - 1 - shift < 7
                               /\ (byte \div 2^(k - 1 - shift)) % 2 = 1
                         THEN 1 ELSE 0]
             IN IF byte < 128
                THEN [ok |-> TRUE, cause |-> "", value |-> r, offset |-> off + 1]
                ELSE loop(off + 1, r, shift + 8)
  IN loop(offset, [k \in 1..32 |-> 0], 0)

\* parser/uleb.rs read_uleb128.  The u32 result is kept as its 32 bits, least
\* significant first (value[k + 1] is bit k): result |= (byte & 0x7F) << shift
\* sets bit shift + j for every set bit j < 7 of the byte and drops what
\* leaves the 32 bits.  data[offset] outside the slice panics; a shift of 32
\* or more (a sixth byte) panics in a build with overflow checks.
read_uleb128(data, offset) ==
  LET RECURSIVE loop(_, _, _)
      loop(off, res, shift) ==
        IF ~InRange(data, off)
        THEN [ok |-> FALSE, cause |-> "index out of bounds: data",
              value |-> res, offset |-> off]
        ELSE IF shift >= 32
        THEN [ok |-> FALSE, cause |-> "attempt to shift left with overflow",
              value |-> res, offset |-> off]
        ELSE LET byte == At(data, off)
                 r == [k \in 1..32 |->
                         IF \/ res[k] = 1
                            \/ /\ k - 1 >= shift
                               /\ k - 1 - shift < 7
                               /\ (byte \div 2^(k - 1 - shift)) % 2 = 1
                         THEN 1 ELSE 0]
             IN IF byte < 128
                THEN [ok |-> TRUE, cause |-> "", value |-> r, offset |-> off + 1]
                ELSE loop(off + 1, r, shift + 7)
  IN loop(offset, [k \in 1..32 |-> 0], 0)

\* the same without the replacement of C0 80
Parser_parse_string_at_offset_raw(data, string_offset, header_item) ==
  LET offset == string_offset - header_item.data_off
      size == read_uleb128(data, offset)
      RECURSIVE loop(_, _)
      loop(cursor, string_bytes) ==
        IF cursor < Len(data) /\ At(data, cursor) # 0
        THEN LET escaped == FALSE
             IN loop(cursor + (IF escaped THEN 2 ELSE 1),
                     Append(string_bytes, IF escaped THEN 0 ELSE At(data, cursor)))
        ELSE string_bytes
      from_utf8(string_bytes) ==
        IF \A k \in 1..Len(string_bytes) : string_bytes[k] < 128
        THEN string_bytes
        ELSE << 85, 84, 70, 45, 56, 32, 100, 101, 99, 111, 100, 101, 32,
                102, 97, 105, 108, 101, 100 >>
  IN IF string_offset < header_item.data_off
     THEN [ok |-> FALSE, cause |-> "String offset before data section", text |-> <<>>]
     ELSE IF ~size.ok
     THEN [ok |-> FALSE, cause |-> size.cause, text |-> <<>>]
     ELSE [ok |-> TRUE, cause |-> "", text |-> from_utf8(loop(size.offset, <<>>))]

\* parser/parser.rs Parser::parse_string_at_offset on self.data = data, the
\* data section of the file.  The ULEB128 length is read and dropped; bytes
\* are taken up to a 00 byte or the end of the data, C0 80 becoming one 00
\* byte.  String::from_utf8 accepts bytes below 0x80 as they are; the other
\* bytes of the drawn payloads (C0, and 80 with no lead byte before it) are
\* never valid UTF-8, so the text is then "UTF-8 decode failed".
Parser_parse_string_at_offset(data, string_offset, header_item) ==
  LET offset == string_offset - header_item.data_off
      size == read_uleb128(data, offset)
      RECURSIVE loop(_, _)
      loop(cursor, string_bytes) ==
        IF cursor < Len(data) /\ At(data, cursor) # 0
        THEN LET escaped == /\ At(data, cursor) = 192
                            /\ InRange(data, cursor + 1)
                            /\ At(data, cursor + 1) = 128
             IN loop(cursor + (IF escaped THEN 2 ELSE 1),
                     Append(string_bytes, IF escaped THEN 0 ELSE At(data, cursor)))
        ELSE string_bytes
      from_utf8(string_bytes) ==
        IF \A k \in 1..Len(string_bytes) : string_bytes[k] < 128
        THEN string_bytes
        ELSE << 85, 84, 70, 45, 56, 32, 100, 101, 99, 111, 100, 101, 32,
                102, 97, 105, 108, 101, 100 >>
  IN IF string_offset < header_item.data_off
     THEN [ok |-> FALSE, cause |-> "String offset before data section", text |-> <<>>]
     ELSE IF ~size.ok
     THEN [ok |-> FALSE, cause |-> size.cause, text |-> <<>>]
     ELSE [ok |-> TRUE, cause |-> "", text |-> from_utf8(loop(size.offset, <<>>))]

\* parser/strings.rs parse_string_at_offset: the free function; its result
\* is the pair (i, text)
strings_parse_string_at_offset(data, string_offset, header_item, i) ==
  LET offset == string_offset - header_item.data_off
      size == read_uleb128(data, offset)
      RECURSIVE loop(_, _)
      loop(cursor, string_bytes) ==
        IF cursor < Len(data) /\ At(data, cursor) # 0
        THEN LET escaped == /\ At(data, cursor) = 192
                            /\ InRange(data, cursor + 1)
                            /\ At(data, cursor + 1) = 128
             IN loop(cursor + (IF escaped THEN 2 ELSE 1),
                     Append(string_bytes, IF escaped THEN 0 ELSE At(data, cursor)))
        ELSE string_bytes
      from_utf8(string_bytes) ==
        IF \A k \in 1..Len(string_bytes) : string_bytes[k] < 128
        THEN string_bytes
        ELSE << 85, 84, 70, 45, 56, 32, 100, 101, 99, 111, 100, 101, 32,
                102, 97, 105, 108, 101, 100 >>
  IN IF string_offset < header_item.data_off
     THEN [ok |-> FALSE, cause |-> "String offset before data section", i |-> i, text |-> <<>>]
     ELSE IF ~size.ok
     THEN [ok |-> FALSE, cause |-> size.cause, i |-> i, text |-> <<>>]
     ELSE [ok |-> TRUE, cause |-> "", i |-> i, text |-> from_utf8(loop(size.offset, <<>>))]

\* parser/class.rs parse_encoded_value: the value whose tag byte is at
\* data[offset] and the cursor after it.  A Long, Float or Double is kept as
\* the eight or four bytes buf that from_le_bytes reads; the text of a String
\* or Type as its byte codes.  buf starts as zeroes and receives the size
\* payload bytes, whatever sign the last of them carries; buf[i] with i
\* beyond its width and data[cursor + i] beyond the data panic.
parse_encoded_value(data, offset, container) ==
  LET byte == At(data, offset)
      cursor == offset + 1
      val_type == byte % 32
      val_arg == (byte \div 32) % 8
      size == val_arg + 1
      fits(width) == size <= width /\ cursor + size <= Len(data)
      buf(width) == [i \in 1..width |-> IF i <= size THEN At(data, cursor + i - 1) ELSE 0]
      u16(b) == b[1] + 256 * b[2]
      i16(b) == IF b[2] >= 128 THEN u16(b) - 65536 ELSE u16(b)
      i32(b) == b[1] + 256 * b[2] + 65536 * b[3]
                + 16777216 * (IF b[4] >= 128 THEN b[4] - 256 ELSE b[4])
      \* val |= (data[cursor + i] as u32) << (8 * i): the index val, or -1
      \* when it is 2^24 or more (beyond every table of a drawn container)
      val == IF size = 4 /\ At(data, cursor + 3) # 0 THEN -1
             ELSE buf(3)[1] + 256 * buf(3)[2] + 65536 * buf(3)[3]
      unknown == << 60, 117, 110, 107, 110, 111, 119, 110, 62 >>
      text_at(table, id) ==
        IF id < 0 \/ id >= Len(table) THEN [ok |-> TRUE, cause |-> "", text |-> unknown]
        ELSE strings_parse_string_at_offset(data, At(table, id), container.header_item, 0)
      type_string_id == IF val < 0 \/ val >= Len(container.type_id_items) THEN -1
                        ELSE At(container.type_id_items, val)
      done(v, c) == [ok |-> TRUE, cause |-> "", val |-> v, cursor |-> c]
      fail(cause) == [ok |-> FALSE, cause |-> cause, val |-> DexNull, cursor |-> cursor]
      read(width, v) == IF fits(width) THEN done(v, cursor + size)
                        ELSE fail("index out of bounds")
      index(table, id, t) ==
        IF size > 4 THEN fail("attempt to shift left with overflow")
        ELSE IF cursor + size > Len(data) THEN fail("index out of bounds")
        ELSE IF ~text_at(table, id).ok THEN fail(text_at(table, id).cause)
        ELSE done([t |-> t, n |-> 0, s |-> "", text |-> text_at(table, id).text],
                  cursor + size)
  IN IF ~InRange(data, offset) THEN fail("index out of bounds")
     ELSE CASE val_type = 0 ->
                 IF ~InRange(data, cursor) THEN fail("index out of bounds")
                 ELSE done(DexInt(i8_from_byte(At(data, cursor))), cursor + 1)
            [] val_type = 2 -> read(2, DexInt(i16(buf(2))))
            [] val_type = 3 -> read(2, DexValue("Char", u16(buf(2)), ""))
            [] val_type = 4 -> read(4, DexInt(i32(buf(4))))
            [] val_type = 6 ->
                 read(8, [t |-> "Long", n |-> 0, s |-> "", bytes |-> buf(8)])
            [] val_type = 16 ->
                 read(4, [t |-> "Float", n |-> 0, s |-> "", bytes |-> buf(4)])
            [] val_type = 17 ->
                 read(8, [t |-> "Double", n |-> 0, s |-> "", bytes |-> buf(8)])
            [] val_type = 23 -> index(container.string_id_items, val, "String")
            [] val_type = 24 -> index(container.string_id_items, type_string_id, "Type")
            [] val_type = 30 -> done(DexNull, cursor)
            [] val_type = 31 -> done(DexBoolean(val_arg # 0), cursor)
            [] OTHER -> done(DexNull, cursor)

\* parser/class.rs parse_encoded_array: the values of the encoded_array at
\* file offset offset and the cursor after the last one.  The count is the
\* u32 read_uleb128 returns; every value takes at least its tag byte, so a
\* count above the length of the data ends in the panic of an index.
parse_encoded_array(data, offset, container) ==
  LET start == offset - container.header_item.data_off
      size == read_uleb128(data, start)
      count == IF \E k \in 17..32 : size.value[k] = 1 THEN Len(data) + 1
               ELSE LET RECURSIVE nat(_)
                        nat(k) == IF k > 16 THEN 0 ELSE size.value[k] + 2 * nat(k + 1)
                    IN nat(1)
      RECURSIVE loop(_, _, _)
      loop(left, values, cursor) ==
        IF left = 0 THEN [ok |-> TRUE, cause |-> "", values |-> values, cursor |-> cursor]
        ELSE LET v == parse_encoded_value(data, cursor, container)
             IN IF ~v.ok
                THEN [ok |-> FALSE, cause |-> v.cause, values |-> values,
                      cursor |-> cursor]
                ELSE loop(left - 1, Append(values, v.val), v.cursor)
  IN IF offset < container.header_item.data_off
     THEN [ok |-> FALSE, cause |-> "String offset is before data section",
           values |-> <<>>, cursor |-> 0]
     ELSE IF ~size.ok
     THEN [ok |-> FALSE, cause |-> size.cause, values |-> <<>>, cursor |-> start]
     ELSE loop(count, <<>>, size.offset)

\* the state before any parser function or bridge call has run on the file
UnitInit ==
  /\ \E kind \in DOMAIN Blobs : \E bytes \in Blobs[kind] :
       out_dir = [data |-> bytes, classes |-> <<>>]
  /\ parser = [init |-> FALSE, classes |-> <<>>]
  /\ heap = EmptyMap
  /\ object_refs = <<>>
  /\ frames = <<>>
  /\ main_idx = 0
  /\ next_object_id = 0
  /\ runs = <<>>
  /\ status = "idle"
  /\ panic = ""
  /\ bridge = NoBridge
  /\ result = None
  /\ calls = 0
  /\ ids = <<>>
  /\ hist = <<>>

\* one call of a parser function op on the file, at offset at: r is what it
\* returned ([ok, cause, ...]); a failed index or expect ends the process
UnitCall(op, at, r) ==
  /\ status = "idle"
  /\ bridge' = [op |-> op, stage |-> "", name |-> "", at |-> at]
  /\ status' = IF r.ok THEN "returned" ELSE "panicked"
  /\ panic' = IF r.ok THEN "" ELSE r.cause
  /\ result' = IF r.ok THEN r ELSE None
  /\ calls' = calls + 1
  /\ UNCHANGED << out_dir, heap, object_refs, frames, main_idx, next_object_id,
                  runs, ids, hist >>

\* Java_mihonx_runner_RustBridge_rustGetDexVersion on the installed file
GetDexVersion ==
  /\ out_dir.data \in Blobs["dex"]
  /\ parser' = get_or_init_interpreter
  /\ LET header == parse_header(out_dir.data)
     IN UnitCall("get_dex_version", 0,
                   [ok |-> header.ok, cause |-> header.cause,
                    text |-> get_dex_version(header.header_item)])

\* parse_instructions on the insns of one method
ParseInstructions ==
  /\ status = "idle"
  /\ \/ out_dir.data \in Blobs["invoke"]
     \/ out_dir.data \in Blobs["stream"]
     \/ out_dir.data \in Blobs["opcode"]
  /\ LET r == parse_instructions(out_dir.data)
     IN UnitCall("parse_instructions", 0,
                   [ok |-> r.ok, cause |-> "index out of bounds: insns", ins |-> r.ins])
  /\ UNCHANGED parser

\* read_uleb128 at the start of the bytes
ReadUleb128 ==
  /\ out_dir.data \in Blobs["uleb"]
  /\ UnitCall("read_uleb128", 0, read_uleb128(out_dir.data, 0))
  /\ UNCHANGED parser

\* both string decoders on the string_data_item at file offset
\* data_off + at of a file whose data section is the drawn bytes
ParseStringAtOffset ==
  /\ out_dir.data \in Blobs["string"]
  /\ \E at \in 0..1 :
       LET header_item == [data_off |-> 112]
           method == Parser_parse_string_at_offset(out_dir.data, 112 + at, header_item)
           free == strings_parse_string_at_offset(out_dir.data, 112 + at, header_item, 0)
       IN UnitCall("parse_string_at_offset", at,
                     [ok |-> method.ok /\ free.ok, cause |-> method.cause,
                      text |-> method.text, free |-> free])
  /\ UNCHANGED parser

\* parse_encoded_array on the encoded_array at file offset data_off + at of
\* a file whose data section is the drawn bytes and that has no strings
ParseEncodedArray ==
  /\ out_dir.data \in Blobs["array"]
  /\ \E at \in 0..1 :
       LET container == [header_item |-> [data_off |-> 112],
                         string_id_items |-> <<>>, type_id_items |-> <<>>]
       IN UnitCall("parse_encoded_array", at,
                     parse_encoded_array(out_dir.data, 112 + at, container))
  /\ UNCHANGED parser

\* Interpreter::push_frame_with_class with drawn arguments, for the method m
\* of a class whose code_item starts with the drawn bytes, and for a method
\* the class does not have
PushFrame ==
  /\ status = "idle"
  /\ out_dir.data \in Blobs["code"]
  /\ \E method_name \in { "m", "gone" } :
     \E args \in UNION { [1..n -> { DexInt(7), DexObject(0) }] : n \in 0..MaxArgs } :
       LET class == [name |-> "LFoo;", super_class |-> DexString("Ljava/lang/Object;"),
                     methods |-> [n \in { "m" } |->
                                    DexMethod(parse_u16(out_dir.data, 0), <<>>)]]
           pushed == push_frame_with_class(class, 0, method_name, args)
       IN /\ bridge' = [op |-> "push_frame", stage |-> "", name |-> method_name,
                        at |-> 0, args |-> args]
          /\ frames' = IF pushed.ok THEN Append(frames, pushed.frame) ELSE frames
          /\ status' = IF pushed.ok THEN "returned" ELSE "panicked"
          /\ panic' = pushed.cause
  /\ calls' = calls + 1
  /\ UNCHANGED << out_dir, parser, heap, object_refs, main_idx, next_object_id,
                  runs, result, ids, hist >>

\* parser/class.rs parse_class_data, the class name, the superclass name and
\* the static fields of a class_def whose class_data_item declares
\* static_fields_size distinctly named static fields.  A u32 index is its
\* four little-endian bytes; NO_INDEX (types.rs) is 0xffffffff.  The fields
\* are kept in declaration order; orders[k] is the order in which
\* static_fields.values_mut() visits the k - 1 fields already inserted when
\* the k-th is decoded.
parse_class_data(data, class_def, static_fields_size, orders, container) ==
  LET as_usize(b) == IF b[4] < 128
                     THEN b[1] + 256 * b[2] + 65536 * b[3] + 16777216 * b[4]
                     ELSE 2147483647
      named(type_id) == string_of_id(type_to_string_id(type_id))
      class_name == IF named(class_def.class_idx) = None THEN "<unknown>"
                    ELSE named(class_def.class_idx).s
      has_super == class_def.superclass_idx # <<255, 255, 255, 255>>
      super_class_name == IF has_super THEN named(as_usize(class_def.superclass_idx))
                          ELSE None
      reads_values == class_def.static_values_off # 0 /\ static_fields_size > 0
      RECURSIVE static_fields(_, _, _)
      static_fields(k, fields, static_values) ==
        IF k > static_fields_size THEN fields
        ELSE LET visited(j) == CHOOSE i \in 1..Len(fields) : orders[k][i] = j
                 valued == [j \in 1..Len(fields) |->
                              IF reads_values /\ visited(j) <= Len(static_values)
                              THEN static_values[visited(j)] ELSE fields[j]]
             IN static_fields(k + 1, Append(valued, None), static_values)
      unknown == [name |-> "<unknown>", super_class |-> None, static_fields |-> <<>>]
      \* the rest of the decoding, array being what parse_encoded_array
      \* returned at static_values_off
      with(array) ==
        IF ~array.ok THEN [ok |-> FALSE, cause |-> array.cause, class |-> unknown]
        ELSE [ok |-> TRUE, cause |-> "",
              class |-> [name |-> class_name, super_class |-> super_class_name,
                         static_fields |-> static_fields(1, <<>>, array.values)]]
  IN IF class_def.class_data_off = 0 THEN [ok |-> TRUE, cause |-> "", class |-> unknown]
     ELSE IF class_def.class_data_off < container.header_item.data_off
     THEN [ok |-> FALSE, cause |-> "String offset is before data section",
           class |-> unknown]
     ELSE IF has_super /\ super_class_name = None
     THEN [ok |-> FALSE, cause |-> "unwrap on None: type_to_string_offset",
           class |-> unknown]
     ELSE IF ~reads_values
     THEN with([ok |-> TRUE, cause |-> "", values |-> <<>>, cursor |-> 0])
     ELSE CHOOSE r \in { with(array) :
                           array \in { parse_encoded_array(data, class_def.static_values_off,
                                                           container) } } : TRUE

\* Parser::parse_class_items over one class_def of the installed file: the
\* class is skipped when it has no class data, named through
\* get_name_of_class (class and superclass) and decoded by parse_class_data
ParseClassItems ==
  /\ status = "idle"
  /\ out_dir.data \in Blobs["statics"]
  /\ \E superclass_idx \in { <<1, 0, 0, 0>>, <<255, 255, 255, 255>> } :
     \E class_data_off \in {0, 112} :
       LET container == [header_item |-> [data_off |-> 112],
                         string_id_items |-> <<>>, type_id_items |-> <<>>]
           \* superclass_idx as usize
           superclass == IF superclass_idx[4] < 128 THEN superclass_idx[1] ELSE 2147483647
           ran(r, class_def, n) ==
             /\ bridge' = [op |-> "parse_class_items", stage |-> "", name |-> "",
                           at |-> 0, class_def |-> class_def, n |-> n]
             /\ status' = IF r.ok THEN "returned" ELSE "panicked"
             /\ panic' = IF r.ok THEN "" ELSE r.cause
             /\ result' = IF r.ok THEN r ELSE None
       IN IF class_data_off = 0
          THEN ran([ok |-> TRUE, cause |-> "", classes |-> <<>>],
                   [class_idx |-> 0, superclass_idx |-> superclass_idx,
                    class_data_off |-> 0, static_values_off |-> 0], 0)
          ELSE IF ~get_name_of_class_ok(0) \/ ~get_name_of_class_ok(superclass)
          THEN ran([ok |-> FALSE, cause |-> "index out of bounds: type_id_items"],
                   [class_idx |-> 0, superclass_idx |-> superclass_idx,
                    class_data_off |-> class_data_off, static_values_off |-> 0], 0)
          ELSE \E n \in 0..MaxValues : \E static_values_off \in {0, 113} :
               \E orders \in [1..n -> UNION { [1..j -> 1..j] : j \in 0..(n - 1) }] :
                 /\ \A k \in 1..n : /\ DOMAIN orders[k] = 1..(k - 1)
                                     /\ \A i, j \in 1..(k - 1) :
                                          orders[k][i] = orders[k][j] => i = j
                 /\ LET class_def == [class_idx |-> 0, superclass_idx |-> superclass_idx,
                                      class_data_off |-> class_data_off,
                                      static_values_off |-> static_values_off]
                        r == parse_class_data(out_dir.data, class_def, n, orders, container)
                    IN ran([ok |-> r.ok, cause |-> r.cause, classes |-> << r.class >>],
                           class_def, n)
  /\ calls' = calls + 1
  /\ UNCHANGED << out_dir, parser, heap, object_refs, frames, main_idx, next_object_id,
                  runs, ids, hist >>

\* the fixed-width readers of utils.rs at an offset inside the bytes
ParseWord ==
  /\ out_dir.data \in Blobs["word"]
  /\ \E at \in 0..(Len(out_dir.data) - 1) :
     \E reader \in {"parse_u16", "parse_i16", "parse_u32", "parse_i32", "parse_u64"} :
       LET data == out_dir.data
           \* parse_i16 and parse_u64 index data[offset + k] like parse_u16
           parse_i16 == LET u == parse_u16(data, at)
                        IN IF u >= 32768 THEN u - 65536 ELSE u
           parse_u64 == SubSeq(data, at + 1, at + 8)
           width == CASE reader \in {"parse_u16", "parse_i16"} -> 2
                      [] reader \in {"parse_u32", "parse_i32"} -> 4
                      [] OTHER -> 8
           ok == reader \in {"parse_u32", "parse_i32"} \/ at + width <= Len(data)
       IN UnitCall(reader, at,
            [ok |-> ok, cause |-> "index out of bounds: data",
             n |-> IF ~ok THEN 0
                   ELSE CASE reader = "parse_u16" -> parse_u16(data, at)
                          [] reader = "parse_i16" -> parse_i16
                          [] reader = "parse_i32" -> parse_i32(data, at)
                          [] OTHER -> 0,
             bytes |-> IF ~ok THEN <<>>
                       ELSE CASE reader = "parse_u32" -> parse_u32(data, at)
                              [] reader = "parse_u64" -> parse_u64
                              [] OTHER -> <<>>])
  /\ UNCHANGED parser

UnitNext ==
  \/ ParseClassItems
  \/ ParseWord
  \/ GetDexVersion
  \/ ParseInstructions
  \/ ReadUleb128
  \/ ParseStringAtOffset
  \/ ParseEncodedArray
  \/ PushFrame

SpecUnit == UnitInit /\ [][UnitNext]_vars

\* ---------------------------------------------------------------- properties
\* C1: when a callee frame pushed by the invoke-virtual super-fallback has
\* just executed return-void, return or return-object, the value it produced
\* is the pending-result (temp) of the invoking frame, now on top of the stack.
C1_ReturnBecomesCallerTemp ==
  ( /\ hist # <<>>
    /\ Last(hist).out = "return"
    /\ Last(hist).run.via = "InvokeVirtual"
    /\ Last(hist).depth = Last(hist).run.base
    /\ status = "running" )
  => Top.temp = Last(hist).val

\* C2: no reachable state has a top frame for which an iteration of the run
\* loop changes nothing (the frame's method is not in the class the loop
\* resolves it in), so every run exits.
C2_RunLoopProgresses == ~(status = "running" /\ frames # <<>> /\ ~MethodFound)

\* C3: when the installed getName is 12 B 0F 00 (const/4 v0, #B>>4; return
\* v0), its first decoded instruction is const/4 with destination = low
\* nibble of B and literal = high nibble of B sign-extended from 4 bits, and
\* the call returns that literal as Int; for 12 F0 0F 00 it returns Int(-1).
C3_Const4SignExtended ==
  \A B \in 0..255 :
    ( /\ out_dir.data = << 18, B, 15, 0 >>
      /\ B % 16 = 0
      /\ bridge.name = "getName"
      /\ status = "returned" )
    => LET literal == IF B \div 16 >= 8 THEN (B \div 16) - 16 ELSE B \div 16
       IN /\ At(At(classes, main_idx).methods["getName"].instructions, 0)
               = Instr("Const4Bit", B % 16, literal, 0, <<>>)
          /\ result = DexInt(literal)

\* C4: whenever the run loop resolves a method for a frame, the frame's
\* register vector is as long as that method's declared register count.
C4_RegistersMatchMethod ==
  (status = "running" /\ frames # <<>> /\ MethodFound)
  => Len(Top.registers) = CurMethod.registers

\* C5: the ids returned by alloc_object, new-instance and insert_object are
\* strictly increasing in the order returned, a returned id is not in the heap
\* before it is returned, and an object already in the heap keeps its class
\* name, its method table and its fields' keys (it is never replaced).
C5_ObjectIdsFresh ==
  /\ [](\A a, b \in 1..Len(ids) : a < b => ids[a] < ids[b])
  /\ [][ /\ Len(ids') >= Len(ids)
         /\ SubSeq(ids', 1, Len(ids)) = ids
         /\ \A k \in (Len(ids) + 1)..Len(ids') : ids'[k] \notin DOMAIN heap
         /\ \A id \in DOMAIN heap :
              /\ id \in DOMAIN heap'
              /\ heap'[id].class_name = heap[id].class_name
              /\ heap'[id].methods = heap[id].methods
              /\ DOMAIN heap[id].fields \subseteq DOMAIN heap'[id].fields ]_vars

\* ids from the bridge's insert_object and alloc_object followed by a
\* new-instance
C5_Witness ==
  /\ Len(ids) >= 3
  /\ Last(hist).ins.op = "NewInstance"
  /\ Last(hist).out = "next"
  /\ Last(ids) = Last(hist).val.n

\* C6: after an implemented instruction met a register operand outside the
\* frame's registers, an index outside the constant pool or a field the
\* object does not hold, execution has not aborted.
C6_IndexFaultNonFatal ==
  ~( /\ status = "panicked"
     /\ hist # <<>>
     /\ Last(hist).ins.op \in ImplementedOps
     /\ panic \in { RegsPanic, "index out of bounds: strings",
                    "unwrap on None: method_id_items",
                    "index out of bounds: type_id_items", "key not found: fields" } )

\* C7: after invoke-direct or invoke-virtual targeted a class absent from the
\* class store or a method the loaded class does not define, execution has
\* not aborted (the invoke was a no-op).
C7_MissingTargetIsNoOp ==
  ~( /\ status = "panicked"
     /\ hist # <<>>
     /\ Last(hist).ins.op \in { "InvokeDirect", "InvokeVirtual" }
     /\ panic \in { "Opening file failed", "method not found" } )

\* C8: invoke-static areEqual on two argument registers leaves Boolean(true)
\* in the frame's pending result and goes on when the registers hold equal
\* values, and stops with the assertion when they differ; no frame ever
\* holds Boolean(false) as pending result.
C8_AreEqual ==
  /\ [][ ( /\ Fetches
           /\ Fetched.op = "InvokeStatic"
           /\ Len(Fetched.args) = 2
           /\ RegOk(Entered, At(Fetched.args, 0))
           /\ RegOk(Entered, At(Fetched.args, 1))
           /\ method_id_ok(Fetched.c)
           /\ method_name_of(Fetched.c) = DexString("areEqual")
           /\ get_name_of_class_ok(method_id_to_class_string_offset(Fetched.c)) )
         => IF Reg(Entered, At(Fetched.args, 0)) = Reg(Entered, At(Fetched.args, 1))
            THEN /\ status' = "running"
                 /\ Len(frames') = Len(frames)
                 /\ Last(frames').temp = DexBoolean(TRUE)
            ELSE /\ status' = "panicked"
                 /\ panic' = "assertion failed: not equal" ]_vars
  /\ [](\A k \in 1..Len(frames) : frames[k].temp # DexBoolean(FALSE))

\* areEqual has just compared two equal registers
C8_Witness ==
  /\ hist # <<>>
  /\ Last(hist).ins.op = "InvokeStatic"
  /\ method_name_of(Last(hist).ins.c) = DexString("areEqual")
  /\ Last(hist).out = "next"
  /\ status = "running"
  /\ Top.temp = DexBoolean(TRUE)

\* C9: iput-object vS, vO, field@f on an object in the heap stores vS under
\* the field's key, keeps the object's class name and every other object,
\* and an iget-object vD, vO, field@f executed next sets vD to that value.
C9_PutGetRoundTrip ==
  /\ [][ ( /\ Fetches
           /\ Fetched.op = "IPutObject"
           /\ RegOk(Entered, Fetched.b)
           /\ Reg(Entered, Fetched.b).t = "Object"
           /\ Reg(Entered, Fetched.b).n \in DOMAIN heap
           /\ RegOk(Entered, Fetched.a) )
         => LET id == Reg(Entered, Fetched.b).n
                x == Reg(Entered, Fetched.a)
            IN /\ DOMAIN heap' = DOMAIN heap
               /\ << "field@", Fetched.c >> \in DOMAIN heap'[id].fields
               /\ heap'[id].fields[<< "field@", Fetched.c >>] = x
               /\ heap'[id].class_name = heap[id].class_name
               /\ \A o \in DOMAIN heap \ {id} : heap'[o] = heap[o] ]_vars
  /\ []( ( /\ Len(hist) = 2
           /\ hist[1].ins.op = "IPutObject"
           /\ hist[2].ins.op = "IGetObject"
           /\ hist[1].out = "next"
           /\ hist[2].out = "next"
           /\ hist[1].depth = hist[2].depth
           /\ hist[1].ins.b = hist[2].ins.b
           /\ hist[1].ins.c = hist[2].ins.c
           /\ hist[2].ins.a # hist[2].ins.b
           /\ Reg(Top, hist[2].ins.b).t = "Object"
           /\ Reg(Top, hist[2].ins.b).n \in DOMAIN heap )
         => /\ hist[1].val # None
            /\ Reg(Top, hist[2].ins.a) = hist[1].val
            /\ heap[Reg(Top, hist[2].ins.b).n].fields[<< "field@", hist[2].ins.c >>]
                 = hist[1].val )

\* iput-object then iget-object of the same field of object 1, the value
\* being a reference
C9_Witness ==
  /\ Len(hist) = 2
  /\ hist[1].ins.op = "IPutObject"
  /\ hist[2].ins.op = "IGetObject"
  /\ hist[1].out = "next"
  /\ hist[2].out = "next"
  /\ hist[1].depth = hist[2].depth
  /\ hist[1].ins.c = hist[2].ins.c
  /\ hist[1].val = DexObject(1)
  /\ Reg(Top, hist[2].ins.a) = DexObject(1)

\* C10: when object 1 has a field referencing an object that advertises
\* "<name>:()Ljava/lang/String;" with an empty native slot and a registered
\* host receiver advertises "<name>()Ljava/lang/String;", invoke-interface of
\* <name> followed by move-result-object vD leaves the host's returned value
\* in vD and the pending result empty.
C10_InterfaceResultMoved ==
  ( /\ Len(hist) = 2
    /\ hist[1].ins.op = "InvokeInterface"
    /\ hist[2].ins.op = "MoveResultObject"
    /\ hist[1].out = "next"
    /\ hist[2].out = "next"
    /\ hist[1].depth = hist[2].depth
    /\ method_id_ok(hist[1].ins.c)
    /\ method_name_of(hist[1].ins.c) # None
    /\ 1 \in DOMAIN heap
    /\ \E key \in DOMAIN heap[1].fields :
         /\ heap[1].fields[key].t = "Object"
         /\ heap[1].fields[key].n \in DOMAIN heap
         /\ << method_name_of(hist[1].ins.c).s, ":", "()", "Ljava/lang/String;" >>
              \in DOMAIN heap[heap[1].fields[key].n].methods
         /\ heap[heap[1].fields[key].n].methods[
              << method_name_of(hist[1].ins.c).s, ":", "()", "Ljava/lang/String;" >>] = "None"
    /\ \E r \in 1..Len(object_refs) :
         << method_name_of(hist[1].ins.c).s, "()", "Ljava/lang/String;" >>
           \in object_refs[r].defines )
  => /\ hist[1].val # None
     /\ Reg(Top, hist[2].ins.a) = hist[1].val
     /\ Top.temp = None

\* the host's string has been moved into v0 after invoke-interface
C10_Witness ==
  /\ Len(hist) = 2
  /\ hist[1].ins.op = "InvokeInterface"
  /\ hist[2].ins.op = "MoveResultObject"
  /\ hist[1].depth = hist[2].depth
  /\ hist[1].val = DexString("ua")
  /\ status = "running"
  /\ Reg(Top, hist[2].ins.a) = DexString("ua")
  /\ Top.temp = None

\* C11: for every installed file whose magic is 'dex\n', three ASCII digits
\* NNN and a NUL byte, get_dex_version returns a text that starts with 'v'
\* and in which the three digits NNN occur in that order.
C11_VersionHasThreeDigits ==
  (bridge.op = "get_dex_version" /\ status = "returned")
    => LET magic == out_dir.data
           text == result.text
       IN /\ text[1] = 118
          /\ \E i, j, k \in 1..Len(text) :
               /\ i < j /\ j < k
               /\ text[i] = magic[5] /\ text[j] = magic[6] /\ text[k] = magic[7]

\* C12: for each opcode 0x6E..0x72 and each argument count A in 0..5 in the
\* high nibble of the second byte, the decoded invoke holds exactly A argument
\* registers: the first A of the nibbles C, D, E, F, G of the format-35c
\* encoding, in that order.
C12_InvokeArgsAreCDEFG ==
  (bridge.op = "parse_instructions" /\ status = "returned"
     /\ Len(out_dir.data) = 6 /\ out_dir.data[1] \in 110..114
     /\ out_dir.data[2] \div 16 <= 5)
    => LET b == out_dir.data
           A == b[2] \div 16
           CDEFG == << b[5] % 16, b[5] \div 16, b[6] % 16, b[6] \div 16, b[2] % 16 >>
       IN /\ Len(result.ins) = 1
          /\ result.ins[1].op = InvokeName(b[1])
          /\ result.ins[1].a = A
          /\ result.ins[1].c = b[3] + 256 * b[4]
          /\ result.ins[1].args = SubSeq(CDEFG, 1, A)

\* C14: read_uleb128 at the start of the canonical ULEB128 encoding of an
\* integer n with 0 <= n < 2^32 (7 bits of n per byte, low groups first, bit 7
\* set on every byte but the last, no more bytes than n needs) returns n and
\* the number of encoded bytes; the bytes E5 8E 26 give 624485 and 3.
C14_UlebRoundTrip ==
  (bridge.op = "read_uleb128" /\ status \in {"returned", "panicked"})
    => LET data == out_dir.data
           L == CHOOSE l \in 1..Len(data) :
                  data[l] < 128 /\ \A j \in 1..(l - 1) : data[j] >= 128
           canonical == L = 1 \/ data[L] # 0
           below2to32 == L < 5 \/ (L = 5 /\ data[5] < 16)
           n == [k \in 1..32 |->
                   IF (k - 1) \div 7 < L
                   THEN ((data[(k - 1) \div 7 + 1] % 128) \div 2^((k - 1) % 7)) % 2
                   ELSE 0]
       IN /\ (canonical /\ below2to32)
             => /\ status = "returned"
                /\ result.value = n
                /\ result.offset = L
          /\ (Len(data) >= 3 /\ SubSeq(data, 1, 3) = << 229, 142, 38 >>)
             => /\ status = "returned"
                /\ result.value = [k \in 1..32 |->
                                     IF k = 32 THEN 0 ELSE (624485 \div 2^(k - 1)) % 2]
                /\ result.offset = 3

\* a five-byte encoding, of 2^32 - 1, has been read
C14_Witness ==
  /\ bridge.op = "read_uleb128" /\ status = "returned"
  /\ out_dir.data = << 255, 255, 255, 255, 15 >>
  /\ result.offset = 5
  /\ \A k \in 1..32 : result.value[k] = 1

\* C15: for every string of ASCII and NUL characters, decoding its payload
\* (ULEB128 length, each NUL written as C0 80, every other character as its
\* byte, then a 00 terminator) at its offset returns exactly that string, and
\* Parser::parse_string_at_offset and strings::parse_string_at_offset return
\* the same text.
C15_StringRoundTrip ==
  (bridge.op = "parse_string_at_offset" /\ status \in {"returned", "panicked"})
    => LET RECURSIVE payload(_)
           payload(str) == IF str = <<>> THEN <<0>>
                           ELSE (IF Head(str) = 0 THEN <<192, 128>> ELSE <<Head(str)>>)
                                \o payload(Tail(str))
       IN \A str \in UNION { [1..n -> {0, 65, 127}] : n \in 0..MaxString } :
            (out_dir.data = [k \in 1..bridge.at |-> 7] \o <<Len(str)>> \o payload(str))
              => /\ status = "returned"
                 /\ result.text = str
                 /\ result.free.ok /\ result.free.text = str

\* a string with an embedded NUL has been decoded after one leading byte
C15_Witness ==
  /\ bridge.op = "parse_string_at_offset" /\ status = "returned"
  /\ out_dir.data = << 7, 3, 65, 192, 128, 127, 0 >>
  /\ bridge.at = 1
  /\ result.text = << 65, 0, 127 >>

\* C13: for every list of Byte, Short, Int, Long, Char, Boolean and Null
\* values written as an encoded_array (ULEB128 count, then per value a tag
\* byte with the type in the low 5 bits and size - 1 in the high 3 bits and
\* the payload in the fewest little-endian bytes, sign-extended for short, int
\* and long), parse_encoded_array returns the same values (byte and short as
\* Int) and a cursor just past the last value; a negative int written in
\* fewer than 4 bytes comes back as the same negative value.
C13_EncodedArrayRoundTrip ==
  (bridge.op = "parse_encoded_array" /\ status \in {"returned", "panicked"}
     /\ (bridge.at = 1 <=> out_dir.data[1] = 7))
    => LET data == out_dir.data
           \* the value written at data[c + 1 ..], read with sign extension
           written(c) ==
             LET type == data[c + 1] % 32
                 size == IF type \in {30, 31} THEN 0 ELSE data[c + 1] \div 32 + 1
                 top == data[c + 1 + size]
                 low == IF size > 1 THEN data[c + 2] ELSE 0
                 mid == IF size > 2 THEN data[c + 3] ELSE 0
                 signed == CASE size = 1 -> i8_from_byte(top)
                             [] size = 2 -> low + 256 * i8_from_byte(top)
                             [] size = 3 -> low + 256 * mid + 65536 * i8_from_byte(top)
                             [] size = 4 -> low + 256 * mid + 65536 * data[c + 4]
                                            + 16777216 * i8_from_byte(top)
                             [] OTHER -> 0
                 unsigned == IF size = 2 THEN low + 256 * top ELSE top
             IN [next |-> c + 1 + size,
                 val |-> CASE type \in {0, 2, 4} -> DexInt(signed)
                           [] type = 3 -> DexValue("Char", unsigned, "")
                           [] type = 6 ->
                                [t |-> "Long", n |-> 0, s |-> "",
                                 bytes |-> [i \in 1..8 |->
                                              IF i <= size THEN data[c + 1 + i]
                                              ELSE IF top >= 128 THEN 255 ELSE 0]]
                           [] type = 31 -> DexBoolean(data[c + 1] \div 32 # 0)
                           [] type = 30 -> DexNull]
           RECURSIVE list(_, _)
           list(c, left) == IF left = 0 THEN <<>>
                            ELSE <<written(c).val>> \o list(written(c).next, left - 1)
       IN /\ status = "returned"
          /\ result.values = list(bridge.at + 1, data[bridge.at + 1])
          /\ result.cursor = Len(data)

\* C16: for every argument vector a and every method declaring r registers,
\* push_frame_with_class succeeds and pushes a frame of r registers with
\* registers[2 + k] = a[k] for every k < |a|, every other register Null, an
\* empty pending-result slot and pc = 0: no argument is dropped and no
\* register count makes the push fail.
C16_PushFrameCopiesArgs ==
  (bridge.op = "push_frame" /\ bridge.name = "m")
    => /\ status = "returned"
       /\ Len(frames) = 1
       /\ LET f == frames[1]
              a == bridge.args
          IN /\ Len(f.registers) = parse_u16(out_dir.data, 0)
             /\ \A k \in 0..(Len(a) - 1) :
                  InRange(f.registers, 2 + k) /\ At(f.registers, 2 + k) = At(a, k)
             /\ \A j \in 0..(Len(f.registers) - 1) :
                  (j < 2 \/ j >= 2 + Len(a)) => At(f.registers, j) = DexNull
             /\ f.temp = None
             /\ f.pc = 0

\* C17: for every frame, whatever its declared register count, before its
\* first instruction is dispatched the run loop sets v0 = Object(1) if the
\* frame has fewer than two registers and v1 = Object(1) otherwise; this never
\* fails, happens only while pc = 0 and changes no other register.
C17_PreludePlantsReceiver ==
  (status = "running" /\ frames # <<>> /\ MethodFound)
    => IF Top.pc = 0
       THEN LET slot == IF Len(Top.registers) < 2 THEN 0 ELSE 1
            IN /\ InRange(Top.registers, slot)
               /\ ~PreludePanics(Top)
               /\ At(Prelude(Top).registers, slot) = DexObject(1)
               /\ \A j \in 0..(Len(Top.registers) - 1) :
                    j # slot => At(Prelude(Top).registers, j) = At(Top.registers, j)
       ELSE Prelude(Top) = Top

\* C18: after any sequence of host-bridge operations and executed
\* instructions, object id 0 has never been given to an allocated or inserted
\* object, and object id 1, whenever it is in the heap, is the main-class
\* instance the host bridge created (its class_name is the main class's
\* name), not an object of new-instance and not the inserted context object.
C18_ReservedObjectIds ==
  /\ \A k \in 1..Len(ids) : ids[k] # 0
  /\ 0 \notin DOMAIN heap
  /\ 1 \in DOMAIN heap
       => /\ parser.init
          /\ heap[1].class_name = At(classes, main_idx).name
          /\ ContainsSource(At(classes, main_idx).super_class.s)

\* C19: invoke-virtual pushes and runs a superclass frame if and only if the
\* class that is executing has no method whose name is the invoked method's
\* name; when that class defines a method of the name, no superclass is
\* loaded and no superclass frame is pushed.
C19_VirtualFallbackOnlyIfMissing ==
  (hist # <<>> /\ Last(hist).ins.op = "InvokeVirtual"
     /\ Last(hist).out \in {"next", "call"}
     /\ method_name_of(Last(hist).ins.c) # None)
    => LET ev == Last(hist)
           defined == method_name_of(ev.ins.c).s \in DOMAIN RunClass(ev.run).methods
       IN (ev.out = "call") <=> ~defined

\* C20: after an invoke-direct on a class outside Ljava/lang/ has finished,
\* whatever the callee's body is and returns, the frame stack is as deep as
\* before the invoke and its top frame is the invoking frame, with the
\* registers and pending-result slot it had and its pc after the invoke: no
\* step of the run the invoke started touches a frame below the callee's, and
\* that run is over as soon as the callee's frame is gone.
C20_InvokeDirectRestoresCaller ==
  [][ (runs # <<>> /\ Last(runs).via = "InvokeDirect")
        => /\ \A k \in 1..(Last(runs).base - 1) :
                k <= Len(frames') /\ frames'[k] = frames[k]
           /\ Len(frames') < Last(runs).base
                => (runs' = Front(runs) /\ Len(frames') = Last(runs).base - 1) ]_vars

\* C21: after any move-result or move-result-object the frame's
\* pending-result slot is empty; if the slot held a value v when the
\* instruction was dispatched, the destination register now holds v; if the
\* slot was empty, the destination register and every other register are as
\* they were when the instruction was dispatched.
C21_MoveResultDrainsSlot ==
  [][ (Fetches /\ Fetched.op \in {"MoveResultObject", "MoveResult"}
         /\ status' # "panicked")
        => LET before == Entered
               after == Last(frames')
               dst == Fetched.a
           IN /\ Len(frames') = Len(frames)
              /\ after.temp = None
              /\ after.pc = Top.pc + 1
              /\ IF before.temp # None
                 THEN /\ At(after.registers, dst) = before.temp
                      /\ \A j \in 0..(Len(before.registers) - 1) :
                           j # dst => At(after.registers, j) = At(before.registers, j)
                 ELSE after.registers = before.registers ]_vars

\* a move-result has moved the Boolean a preceding invoke left pending
C21_Witness ==
  /\ hist # <<>>
  /\ Last(hist).ins.op = "MoveResult"
  /\ Last(hist).out = "next"
  /\ Last(hist).val.t = "Boolean"
  /\ frames # <<>> /\ Top.temp = None
  /\ At(Top.registers, Last(hist).ins.a) = Last(hist).val

\* C22: dispatching a decoded instruction outside the implemented families
\* (a goto or a throw here) leaves the registers, the pending result, the heap
\* and the frame stack as they were and advances the frame's pc by one; and in
\* every step the pc of a frame that stays on the stack stays or grows by one.
C22_UnimplementedOnlyAdvancesPc ==
  [][ /\ (Fetches /\ Fetched.op \notin ImplementedOps)
         => /\ Len(frames') = Len(frames)
            /\ Front(frames') = Front(frames)
            /\ Last(frames').registers = Entered.registers
            /\ Last(frames').temp = Top.temp
            /\ Last(frames').pc = Top.pc + 1
            /\ heap' = heap /\ next_object_id' = next_object_id
            /\ runs' = runs /\ status' = status
      /\ \A k \in 1..Len(frames) :
           k <= Len(frames') => frames'[k].pc \in {frames[k].pc, frames[k].pc + 1} ]_vars

\* a goto -1 has been dispatched and the frame went on to the next instruction
C22_Witness ==
  /\ hist # <<>>
  /\ Last(hist).ins.op = "Goto"
  /\ Last(hist).ins.b = -1
  /\ Last(hist).out = "next"
  /\ frames # <<>> /\ Top.pc = 2

\* C23: at every offset inside the buffer every fixed-width reader returns
\* the little-endian value of the bytes at offset.., a byte beyond the end of
\* the buffer counting as zero, and none of them fails.
C23_ReadersZeroPad ==
  (bridge.op \in {"parse_u16", "parse_i16", "parse_u32", "parse_i32", "parse_u64"})
    => LET data == out_dir.data
           at == bridge.at
           padded(k) == [i \in 1..k |-> IF at + (i - 1) < Len(data)
                                        THEN At(data, at + (i - 1)) ELSE 0]
           u16 == padded(2)[1] + 256 * padded(2)[2]
           i32 == padded(4)[1] + 256 * padded(4)[2] + 65536 * padded(4)[3]
                    + 16777216 * (IF padded(4)[4] >= 128 THEN padded(4)[4] - 256
                                  ELSE padded(4)[4])
       IN /\ status = "returned"
          /\ bridge.op = "parse_u16" => result.n = u16
          /\ bridge.op = "parse_i16" => result.n = IF u16 >= 32768 THEN u16 - 65536 ELSE u16
          /\ bridge.op = "parse_u32" => result.bytes = padded(4)
          /\ bridge.op = "parse_i32" => result.n = i32
          /\ bridge.op = "parse_u64" => result.bytes = padded(8)

\* C24: for every opcode that emits an instruction the decoder consumes the
\* bytes of the opcode's standard DEX format (two per code unit), so a stream
\* of well-formed instructions decodes to as many instructions as it holds.
C24_OneInstructionPerFormat ==
  (bridge.op = "parse_instructions" /\ out_dir.data \in Blobs["stream"])
    => LET data == out_dir.data
           \* code units of the standard formats 10x, 11n, 20t, 21c, 32x, 31t, 35c
           units(op) == CASE op \in {0, 14, 18} -> 1
                          [] op \in {26, 41} -> 2
                          [] op \in {3, 6, 38, 110} -> 3
           RECURSIVE count(_)
           count(i) == IF i >= Len(data) THEN 0
                       ELSE 1 + count(i + 2 * units(At(data, i)))
       IN /\ status = "returned"
          /\ Len(result.ins) = count(0)

\* C25: an opcode byte in 0x3E-0x43, 0x73, 0x79-0x7A or 0xE3-0xFC moves the
\* cursor by one byte and emits nothing, so that the const/4 behind it is the
\* first instruction decoded; every other opcode byte emits an instruction
\* of its own.
C25_OnlyListedOpcodesAreSkipped ==
  (bridge.op = "parse_instructions" /\ out_dir.data \in Blobs["opcode"])
    => LET opcode == out_dir.data[1]
           listed == (62..67) \cup {115, 121, 122} \cup (227..252)
           behind == Instr("Const4Bit", 0, 7, 0, <<>>)
       IN /\ status = "returned"
          /\ IF opcode \in listed
             THEN result.ins = << behind >>
             ELSE /\ Len(result.ins) \in {1, 2}
                  /\ result.ins[1] # behind
                  /\ Len(result.ins) = 2 => result.ins[2] = behind

\* C26: parsing a file with a class_def that has class data and
\* superclass_idx = NO_INDEX completes and yields the decoded class, whose
\* superclass name is absent.
C26_NoIndexSuperclassParses ==
  (/\ bridge.op = "parse_class_items"
   /\ bridge.class_def.class_data_off # 0
   /\ bridge.class_def.superclass_idx = <<255, 255, 255, 255>>)
    => /\ status = "returned"
       /\ Len(result.classes) = 1
       /\ result.classes[1].name = "LMain;"
       /\ result.classes[1].super_class = None

\* C27: with static_values_off # 0, n distinctly named static fields and m
\* array values, the k-th declared field holds the k-th value for every
\* k < min(n, m) and every field with k >= m holds none.
C27_StaticFieldsGetTheirValues ==
  (/\ bridge.op = "parse_class_items"
   /\ status = "returned"
   /\ bridge.class_def.class_data_off # 0
   /\ bridge.class_def.static_values_off # 0)
    => LET fields == result.classes[1].static_fields
           values == parse_encoded_array(out_dir.data, bridge.class_def.static_values_off,
                                         [header_item |-> [data_off |-> 112],
                                          string_id_items |-> <<>>,
                                          type_id_items |-> <<>>]).values
       IN /\ Len(fields) = bridge.n
          /\ \A k \in 1..Len(fields) :
               fields[k] = IF k <= Len(values) THEN values[k] ELSE None

\* C28: for every frame on the call stack, the frame's class_idx and the
\* class_idx handed to execute by the run that pushed it are indices into
\* parser.classes of the class that owns the method the frame executes,
\* frames pushed by invoke-direct and by the invoke-virtual fallback included.
C28_FrameClassIdxOwnsMethod ==
  \A j \in 1..Len(runs) :
    LET r == runs[j]
    IN (r.base <= Len(frames))
         => LET frame == frames[r.base]
            IN /\ frame.class_idx = r.class_idx
               /\ InRange(classes, frame.class_idx)
               /\ At(classes, frame.class_idx).name = r.name
               /\ frame.method_name \in DOMAIN At(classes, frame.class_idx).methods

\* C29: a move-result or move-result-object that delivers a value delivers
\* the value produced by the invoke executed immediately before it in the
\* same frame; a pending result left by an earlier invoke is never delivered
\* after a later invoke that produced none.
C29_MoveResultTakesPrecedingInvoke ==
  [][ ( /\ Fetches
        /\ Fetched.op \in {"MoveResultObject", "MoveResult"}
        /\ Entered.temp # None
        /\ status' = "running" )
      => /\ hist # <<>>
         /\ LET e == Last(hist)
                produced ==
                  CASE e.ins.op = "InvokeStatic" ->
                         IF method_id_ok(e.ins.c)
                            /\ method_name_of(e.ins.c) = DexString("areEqual")
                         THEN DexBoolean(TRUE) ELSE None
                    [] e.ins.op = "InvokeInterface" -> e.val
                    [] OTHER -> None
            IN /\ e.depth = Len(frames)
               /\ e.run = CurRun
               /\ e.out = "next"
               /\ produced # None
               /\ Entered.temp = produced
               /\ At(Last(frames').registers, Fetched.a) = produced ]_vars

\* C30: the classes a bridge call operates on are those of the most recently
\* completed install_extension, also when the install came after the
\* creation of the interpreter singleton.
C30_BridgeUsesLatestInstall ==
  (status = "running") => classes_of(parser) = out_dir.classes

====
